---- MODULE Spec2Model ----
(***************************************************************************)
(* Ecogai mobile client: the Lambda-variant HTTP client (services/api.ts), *)
(* the spot-report screen (both variants), the signup screen and the voice *)
(* helper (services/voiceAI.ts) with the chat screen that drives it; the   *)
(* legacy HTTP client and the mock Express backend it talks to; the home   *)
(* screen (location effect, debounced search) and the login screen.        *)
(* Each component has its own specification; the variables of the other    *)
(* components keep their initial values there.                             *)
(***************************************************************************)
EXTENDS Integers, Sequences, FiniteSets, Bags, TLC

VARIABLES
  \* ApiService (services/api.ts)
  authToken, userId, userEmail, isConnected, inflight, last,
  \* SpotScreen: its React state and pending work, and its most recent step
  spot, spotEv,
  \* SignupScreen: its React state and pending work, and its most recent step
  su, suEv,
  \* VoiceAIService: its state and private fields, the chat screen's copy of
  \* the flags, the async calls in flight, and the most recent step
  voice, chat, calls, voiceEv,
  \* the mock Express backend: its in-memory spots and the request it
  \* answered last
  mockSpots, srvEv,
  \* the legacy ApiService: its token with the requests in flight, and its
  \* most recent step
  legacy, legacyEv,
  \* HomeScreen: its React state, timers and searches in flight, and its most
  \* recent step
  home, homeEv,
  \* LoginScreen: its React state and the login call in flight, and its most
  \* recent step
  li, liEv

apiVars == <<authToken, userId, userEmail, isConnected, inflight, last>>

spotVars == <<spot, spotEv>>

signupVars == <<su, suEv>>

voiceVars == <<voice, chat, calls, voiceEv>>

mockVars == <<mockSpots, srvEv>>

legacyVars == <<legacy, legacyEv>>

homeVars == <<home, homeEv>>

loginVars == <<li, liEv>>

vars == <<authToken, userId, userEmail, isConnected, inflight, last,
          spot, spotEv, su, suEv, voice, chat, calls, voiceEv,
          mockSpots, srvEv, legacy, legacyEv, home, homeEv, li, liEv>>

\* what a step of one component leaves alone
exceptApi ==
  <<spotVars, signupVars, voiceVars, mockVars, legacyVars,
    homeVars, loginVars>>
exceptSpot ==
  <<apiVars, signupVars, voiceVars, mockVars, legacyVars,
    homeVars, loginVars>>
exceptSignup ==
  <<apiVars, spotVars, voiceVars, mockVars, legacyVars,
    homeVars, loginVars>>
exceptVoice ==
  <<apiVars, spotVars, signupVars, mockVars, legacyVars,
    homeVars, loginVars>>
exceptMock ==
  <<apiVars, spotVars, signupVars, voiceVars, legacyVars,
    homeVars, loginVars>>
exceptLegacy ==
  <<apiVars, spotVars, signupVars, voiceVars, mockVars,
    homeVars, loginVars>>
exceptHome ==
  <<apiVars, spotVars, signupVars, voiceVars, mockVars, legacyVars,
    loginVars>>
exceptLogin ==
  <<apiVars, spotVars, signupVars, voiceVars, mockVars, legacyVars,
    homeVars>>

(***************************************************************************)
(* JavaScript values                                                       *)
(***************************************************************************)
Null == "null"
Undef == "undefined"

\* JS truthiness of a string | null | undefined value
Truthy(v) == v \notin {Null, Undef, ""}

\* a || b || c on such values
Or3(a, b, c) == IF Truthy(a) THEN a ELSE IF Truthy(b) THEN b ELSE c

(***************************************************************************)
(* JSON objects.  A fixed set of fields; a field the object does not have  *)
(* reads as undefined.  NoObj stands for an absent nested object.          *)
(***************************************************************************)
NoObj == [absent |-> TRUE]

EmptyObj ==
  [success |-> Undef, error |-> Undef, message |-> Undef, userId |-> Undef,
   accessToken |-> Undef, email |-> Undef, response |-> Undef,
   advice |-> Undef, data |-> NoObj]

\* number of calls that may be awaiting their response at the same time
MaxInFlight == 2

Tokens == {"tokA", "tokB"}
UserIds == {"u1", "u2"}
EmailOf(u) == IF u = "u1" THEN "u1@pcu.edu.ph" ELSE "u2@pcu.edu.ph"

Statuses == {200, 201, 401}

\* the statuses checkConnection tells apart
ProbeStatuses == {200, 401, 403, 500}

\* data objects of the auth endpoints: LoginResponse, SignupResponse
AuthData ==
  {[EmptyObj EXCEPT !.userId = u, !.email = EmailOf(u), !.accessToken = t] :
     u \in UserIds, t \in Tokens}
  \cup {[EmptyObj EXCEPT !.userId = "u1", !.email = EmailOf("u1")]}

\* { success: true, data? }
SuccessBodies ==
  {[EmptyObj EXCEPT !.success = "true", !.data = d] : d \in AuthData \cup {NoObj}}

\* the flat formats of backend/README-LAMBDA.md: login and signup responses
FlatBodies ==
  {[EmptyObj EXCEPT !.success = "true", !.accessToken = "tokA"],
   [EmptyObj EXCEPT !.success = "true", !.userId = "u1",
                    !.message = "User registered successfully"]}

\* { success: false, error?, message? }
FailureBodies ==
  {[EmptyObj EXCEPT !.success = "false", !.error = e, !.message = m] :
     e \in {Undef, "", "Invalid credentials"}, m \in {Undef, "Forbidden"}}

\* bodies without a boolean success: {}, {error, ...}, {message}, mock data
RawBodies ==
  {[EmptyObj EXCEPT !.error = e, !.message = m] :
     e \in {Undef, "", "Route not found"}, m \in {Undef, "Forbidden"}}
  \cup {[EmptyObj EXCEPT !.accessToken = "tokA"]}

Bodies == SuccessBodies \cup FlatBodies \cup FailureBodies \cup RawBodies

\* What fetch() followed by response.json() can produce: a rejected fetch
\* (network error, abort), a response whose body is not JSON, a status with
\* the JSON body null, or a status with a JSON object.
Responses ==
  {[kind |-> "neterr", status |-> 0, body |-> NoObj]}
  \cup {[kind |-> "badjson", status |-> s, body |-> NoObj] : s \in {200, 401}}
  \cup {[kind |-> "jsonnull", status |-> s, body |-> NoObj] : s \in {200, 401}}
  \cup {[kind |-> "json", status |-> s, body |-> b] : s \in Statuses, b \in Bodies}

\* response.ok
Ok(status) == status >= 200 /\ status =< 299

\* the message of what the try block threw: fetch, response.json(), or the
\* read of a property of null (jsonData.error, jsonData.success)
ThrownMessage(resp) ==
  CASE resp.kind = "neterr" -> "Network request failed"
    [] resp.kind = "badjson" -> "JSON Parse error"
    [] OTHER -> "Cannot read property of null"

HttpErrorText(status) ==
  CASE status = 401 -> "HTTP error! status: 401"
    [] status = 200 -> "HTTP error! status: 200"
    [] OTHER -> "HTTP error! status: 201"

(***************************************************************************)
(* ApiService.request: headers                                             *)
(***************************************************************************)
NoHeader == <<>>
Bearer(t) == <<"Bearer", t>>

\* variant: the header is attached whether or not a token is stored
RequestHeadersAlways(tok) ==
  [ContentType |-> "application/json", Authorization |-> Bearer(tok)]

RequestHeaders(tok) ==
  [ContentType |-> "application/json",
   Authorization |-> IF Truthy(tok) THEN Bearer(tok) ELSE NoHeader]

\* checkConnection builds its own headers: Content-Type only
ProbeHeaders ==
  [ContentType |-> "application/json", Authorization |-> NoHeader]

(***************************************************************************)
(* ApiService.request: the envelope made of a response                     *)
(***************************************************************************)
FailEnvelope(msg) == [EmptyObj EXCEPT !.success = "false", !.error = msg]

WrapEnvelope(body) == [EmptyObj EXCEPT !.success = "true", !.data = body]

\* variant: the body's own success flag is trusted before response.ok
RequestTrustsBody(resp) ==
  IF resp.kind # "json" THEN FailEnvelope(ThrownMessage(resp))
  ELSE IF resp.body.success \in {"true", "false"} THEN resp.body
  ELSE IF ~Ok(resp.status)
    THEN FailEnvelope(Or3(resp.body.error, resp.body.message,
                          HttpErrorText(resp.status)))
  ELSE WrapEnvelope(resp.body)

Request(resp) ==
  IF resp.kind # "json" THEN FailEnvelope(ThrownMessage(resp))
  ELSE IF ~Ok(resp.status)
    THEN FailEnvelope(Or3(resp.body.error, resp.body.message,
                          HttpErrorText(resp.status)))
  ELSE IF resp.body.success \in {"true", "false"} THEN resp.body
  ELSE WrapEnvelope(resp.body)

\* response.success && response.data
HasData(env) == env.success = "true" /\ env.data # NoObj

(***************************************************************************)
(* The most recent step of the client, as an observer sees it: a request   *)
(* put on the wire, or a call returning its envelope to the caller.        *)
(***************************************************************************)
NoStep == [type |-> "none"]

Sent(op, method, endpoint, headers) ==
  [type |-> "sent", op |-> op, method |-> method, endpoint |-> endpoint,
   headers |-> headers]

\* net: "local" (returned without a request) or the kind of the response
Returned(op, net, status, body, result) ==
  [type |-> "done", op |-> op, net |-> net, status |-> status, body |-> body,
   result |-> result, preToken |-> authToken, preUserId |-> userId]

NotLoggedIn == FailEnvelope("User not logged in")

(***************************************************************************)
(* Operations.  A call that goes to the network is a Send step followed by *)
(* a Returns step when the response arrives.  inflight holds the pending   *)
(* continuation of every call that awaits its response.                    *)
(***************************************************************************)
Pending == BagCardinality(inflight)

Send(op, cont, method, endpoint) ==
  /\ Pending < MaxInFlight
  /\ inflight' = inflight (+) SetToBag({cont})
  /\ last' = Sent(op, method, endpoint, RequestHeaders(authToken))
  /\ UNCHANGED <<authToken, userId, userEmail, isConnected>>

LocalFail(op) ==
  /\ last' = Returned(op, "local", 0, NoObj, NotLoggedIn)
  /\ UNCHANGED <<authToken, userId, userEmail, isConnected, inflight>>

\* variant: the operation goes to the network without looking at userId
GatedUnchecked(op, method, endpoint) == Send(op, "request", method, endpoint)

\* if (!this.userId) return { success: false, error: "User not logged in" }
Gated(op, method, endpoint) ==
  IF ~Truthy(userId) THEN LocalFail(op) ELSE Send(op, "request", method, endpoint)

signup == Send("signup", "signup", "POST", "/signup")

login == Send("login", "login", "POST", "/login")

logout ==
  /\ authToken' = Null
  /\ userId' = Null
  /\ userEmail' = Null
  /\ last' = [type |-> "logout"]
  /\ UNCHANGED <<isConnected, inflight>>

\* getProfile(userId?): id = userId || this.userId
getProfile ==
  \E arg \in {Undef} \cup UserIds :
    IF ~Truthy(Or3(arg, userId, Undef))
      THEN LocalFail("getProfile")
      ELSE Send(IF arg = Undef THEN "getProfile" ELSE "getProfile(id)",
                "request", "GET", "/profile/{id}")

updateProfile == Gated("updateProfile", "PUT", "/profile/{id}")

getPollutionReports == Send("getPollutionReports", "request", "GET", "/reports")

getPollutionSpots == Send("getPollutionSpots", "request", "GET", "/reports")

getReportById == Send("getReportById", "request", "GET", "/reports/{id}")

createReport == Gated("createReport", "POST", "/reports")

\* the CreateSpotRequest objects of a run: with type, with pollutionType (as
\* the spot screen builds it), with both, with neither
SpotRequests ==
  {[latitude |-> "14.5995", longitude |-> "120.9842", type |-> t,
    pollutionType |-> p, severity |-> "high", description |-> "smoke"] :
     t \in {Undef, "water"}, p \in {Undef, "noise"}}

\* the argument createSpot hands to createReport
SpotReport(data) ==
  [latitude |-> IF Truthy(data.latitude) THEN data.latitude ELSE "0",
   longitude |-> IF Truthy(data.longitude) THEN data.longitude ELSE "0",
   pollutionType |-> IF Truthy(data.type) THEN data.type ELSE "air",
   severity |-> IF Truthy(data.severity) THEN data.severity ELSE "medium",
   description |-> data.description]

\* createSpot delegates to createReport, which posts the report it is given
createSpot ==
  \E data \in SpotRequests :
    IF ~Truthy(userId) THEN LocalFail("createSpot")
    ELSE /\ Pending < MaxInFlight
         /\ inflight' = inflight (+) SetToBag({"request"})
         /\ last' = Sent("createSpot", "POST", "/reports",
                         RequestHeaders(authToken))
                    @@ [request |-> data, payload |-> SpotReport(data)]
         /\ UNCHANGED <<authToken, userId, userEmail, isConnected>>

getUserReports == Gated("getUserReports", "GET", "/reports")

getAgoraToken == Gated("getAgoraToken", "POST", "/agora/token")

submitVoiceReport == Gated("submitVoiceReport", "POST", "/agora/report")

getLocationTips == Send("getLocationTips", "request", "POST", "/agora/location-tips")

getHealthAdvice == Send("getHealthAdvice", "request", "POST", "/health-advice")

sendChatMessage == Send("sendChatMessage", "request", "POST", "/health-advice")

Arrives(cont) ==
  /\ BagIn(cont, inflight)
  /\ inflight' = inflight (-) SetToBag({cont})

\* the part of login after `await this.post("/login", ...)`
LoginStore(env) ==
  IF HasData(env)
    THEN /\ userId' = env.data.userId
         /\ userEmail' = env.data.email
         /\ authToken' = env.data.accessToken
    ELSE UNCHANGED <<authToken, userId, userEmail>>

loginReturns ==
  \E resp \in Responses :
    /\ Arrives("login")
    /\ LoginStore(Request(resp))
    /\ last' = Returned("login", resp.kind, resp.status, resp.body, Request(resp))
    /\ UNCHANGED isConnected

\* the part of signup after `await this.post("/signup", ...)`
SignupStore(env) ==
  IF HasData(env)
    THEN /\ userId' = env.data.userId
         /\ userEmail' = env.data.email
         /\ UNCHANGED authToken
    ELSE UNCHANGED <<authToken, userId, userEmail>>

signupReturns ==
  \E resp \in Responses :
    /\ Arrives("signup")
    /\ SignupStore(Request(resp))
    /\ last' = Returned("signup", resp.kind, resp.status, resp.body, Request(resp))
    /\ UNCHANGED isConnected

\* variant: a request that failed is sent once more
requestReturnsRetrying ==
  \E resp \in Responses :
    /\ BagIn("request", inflight)
    /\ IF Request(resp).success = "false"
         THEN /\ inflight' = inflight
              /\ last' = Sent("retry", "GET", "/reports", RequestHeaders(authToken))
         ELSE /\ inflight' = inflight (-) SetToBag({"request"})
              /\ last' = Returned("request", resp.kind, resp.status, resp.body,
                                  Request(resp))
    /\ UNCHANGED <<authToken, userId, userEmail, isConnected>>

\* every other operation returns the envelope of request() as it is
requestReturns ==
  \E resp \in Responses :
    /\ Arrives("request")
    /\ last' = Returned("request", resp.kind, resp.status, resp.body, Request(resp))
    /\ UNCHANGED <<authToken, userId, userEmail, isConnected>>

\* what the probe's fetch can produce: an abort or network error, or a
\* status whose body is JSON or not
ProbeResponses ==
  {[kind |-> "neterr", status |-> 0]}
  \cup {[kind |-> k, status |-> s] : k \in {"json", "badjson"}, s \in ProbeStatuses}

\* checkConnection, started by the constructor: the part after the fetch
ProbeOutcome(resp) ==
  IF resp.kind = "neterr" THEN FALSE
  ELSE IF Ok(resp.status) THEN resp.kind = "json"
  ELSE resp.status \in {401, 403}

checkConnectionReturns ==
  \E resp \in ProbeResponses :
    /\ Arrives("checkConnection")
    /\ isConnected' = ProbeOutcome(resp)
    /\ last' = [type |-> "probed", status |-> resp.status]
    /\ UNCHANGED <<authToken, userId, userEmail>>

\* new ApiService(): fields at their initializers, the probe on the wire
ApiInit ==
  /\ authToken = Null
  /\ userId = Null
  /\ userEmail = Null
  /\ isConnected = FALSE
  /\ inflight = SetToBag({"checkConnection"})
  /\ last = Sent("checkConnection", "GET", "/reports", ProbeHeaders)

ApiNext ==
  \/ signup \/ login \/ logout
  \/ getProfile \/ updateProfile
  \/ getPollutionReports \/ getPollutionSpots \/ getReportById
  \/ createReport \/ createSpot \/ getUserReports
  \/ getAgoraToken \/ submitVoiceReport \/ getLocationTips
  \/ getHealthAdvice \/ sendChatMessage
  \/ loginReturns \/ signupReturns \/ requestReturns
  \/ checkConnectionReturns


(***************************************************************************)
(* SpotScreen, both variants: "picker" (expo-image-picker, legacy client:  *)
(* upload the image, then createSpot) and "lambda" (expo-camera, Lambda    *)
(* client: convert the image to base64, then createReport).  The screen is *)
(* modelled from the point where the camera permission has been granted.   *)
(***************************************************************************)
ImageUris == {"file:///photo-1.jpg", "file:///photo-2.jpg"}
Here == "14.5995,120.9842"

MissingData == "Missing photo or location data"
SubmitFailed == "Failed to submit report. Please try again."
SubmitSucceeded == "Pollution spot reported successfully!"
NoAlert == "none"

\* useState initial values; the location effect of the mount is running
SpotMounted(variant) ==
  [variant |-> variant, step |-> "capture", capturedImage |-> Null,
   location |-> Null, loading |-> FALSE, alert |-> NoAlert,
   locEffect |-> "permission", pick |-> "none", submit |-> "idle",
   net |-> {}, closed |-> FALSE]

SpotStep(handler, sent, alert) ==
  [handler |-> handler, sent |-> sent, alert |-> alert,
   hadImage |-> spot.capturedImage # Null, hadLocation |-> spot.location # Null]

\* the user can press a button: the screen is mounted and no alert covers it
Interactive == ~spot.closed /\ spot.alert = NoAlert /\ spot.pick = "none"

\* if (step === "form" && capturedImage) the form is rendered, else the camera
FormShown == spot.step = "form" /\ spot.capturedImage # Null

\* the effect of the mount: permission, then getCurrentPositionAsync
locationPermission ==
  /\ spot.locEffect = "permission"
  /\ \E granted \in BOOLEAN :
       spot' = [spot EXCEPT !.locEffect = IF granted THEN "locating" ELSE "done"]
  /\ spotEv' = SpotStep("locationEffect", {}, NoAlert)
  /\ UNCHANGED exceptSpot

\* a failed getCurrentPositionAsync is caught ("lambda") or is an unhandled
\* rejection ("picker"): location stays null either way
locationFix ==
  /\ spot.locEffect = "locating"
  /\ \E ok \in BOOLEAN :
       spot' = [spot EXCEPT !.locEffect = "done",
                            !.location = IF ok /\ ~spot.closed THEN Here ELSE @]
  /\ spotEv' = SpotStep("locationEffect", {}, NoAlert)
  /\ UNCHANGED exceptSpot

handleTakePhoto ==
  /\ Interactive /\ ~FormShown
  /\ spot' = [spot EXCEPT !.pick = "camera"]
  /\ spotEv' = SpotStep("handleTakePhoto", {}, NoAlert)
  /\ UNCHANGED exceptSpot

handlePickFromGallery ==
  /\ Interactive /\ ~FormShown
  /\ spot' = [spot EXCEPT !.pick = "gallery"]
  /\ spotEv' = SpotStep("handlePickFromGallery", {}, NoAlert)
  /\ UNCHANGED exceptSpot

\* the camera or the gallery returns: permission denied or a failed capture
\* (an alert), cancelled (nothing), or an asset
pickReturns ==
  /\ spot.pick # "none"
  /\ \/ \E uri \in ImageUris :
          /\ spot' = [spot EXCEPT !.pick = "none",
                        !.capturedImage = IF spot.closed THEN @ ELSE uri,
                        !.step = IF spot.closed THEN @ ELSE "form"]
          /\ spotEv' = SpotStep("pickReturns", {}, NoAlert)
     \/ /\ spot' = [spot EXCEPT !.pick = "none"]
        /\ spotEv' = SpotStep("pickReturns", {}, NoAlert)
     \/ /\ spot' = [spot EXCEPT !.pick = "none", !.alert = "Permission Required"]
        /\ spotEv' = SpotStep("pickReturns", {}, "Permission Required")
  /\ UNCHANGED exceptSpot

\* handleRetake without setStep("capture")
handleRetakePhotoOnly ==
  /\ Interactive /\ FormShown
  /\ spot' = [spot EXCEPT !.capturedImage = Null]
  /\ spotEv' = SpotStep("handleRetake", {}, NoAlert)
  /\ UNCHANGED exceptSpot

handleRetake ==
  /\ Interactive /\ FormShown
  /\ spot' = [spot EXCEPT !.capturedImage = Null, !.step = "capture"]
  /\ spotEv' = SpotStep("handleRetake", {}, NoAlert)
  /\ UNCHANGED exceptSpot

\* the first request of a submission: the upload or the conversion fetch
ImageRequest == IF spot.variant = "picker" THEN "upload" ELSE "convert"

\* variant: only the photo is checked
SubmitRejectedPhotoOnly == spot.capturedImage = Null

\* if (!capturedImage || !location) { Alert...; return; }
SubmitRejected == spot.capturedImage = Null \/ spot.location = Null

\* variant: the image request and the create request are issued together
SubmitRequestsTogether == {ImageRequest, "create"}

\* the requests handleSubmit issues before its first await
SubmitRequests == {ImageRequest}

\* the Submit button of the form, disabled while loading
handleSubmit ==
  /\ Interactive /\ FormShown /\ ~spot.loading
  /\ IF SubmitRejected
       THEN /\ spot' = [spot EXCEPT !.alert = MissingData]
            /\ spotEv' = SpotStep("handleSubmit", {}, MissingData)
       ELSE /\ spot' = [spot EXCEPT !.loading = TRUE, !.submit = "image",
                                    !.net = @ \cup SubmitRequests]
            /\ spotEv' = SpotStep("handleSubmit", SubmitRequests, NoAlert)
  /\ UNCHANGED exceptSpot

SubmitEnds(alert) ==
  [spot EXCEPT !.submit = "idle", !.loading = FALSE, !.alert = alert]

\* "picker": await api.uploadSpotImage; a failure goes to the catch block.
\* "lambda": await api.imageToBase64, a failure is swallowed; createReport
\* returns at once without a request when the client has no userId.
imageStepReturns ==
  /\ spot.submit = "image"
  /\ \E ok \in BOOLEAN :
       IF spot.variant = "picker" /\ ~ok
         THEN /\ spot' = [SubmitEnds(SubmitFailed) EXCEPT !.net = @ \ {"upload"}]
              /\ spotEv' = SpotStep("imageStepReturns", {}, SubmitFailed)
       ELSE IF spot.variant = "lambda" /\ ~Truthy(userId)
         THEN /\ spot' = [SubmitEnds(NotLoggedIn.error) EXCEPT !.net = @ \ {"convert"}]
              /\ spotEv' = SpotStep("imageStepReturns", {}, NotLoggedIn.error)
       ELSE /\ spot' = [spot EXCEPT !.submit = "create",
                                    !.net = (@ \ {ImageRequest}) \cup {"create"}]
            /\ spotEv' = SpotStep("imageStepReturns", {"create"}, NoAlert)
  /\ UNCHANGED exceptSpot

\* the create call returns: resolved / success envelope, or rejected /
\* failure envelope
createReturns ==
  /\ spot.submit = "create"
  /\ \E ok \in BOOLEAN :
       LET alert == IF ok THEN SubmitSucceeded
                    ELSE IF spot.variant = "picker" THEN SubmitFailed
                    ELSE "Invalid request"
       IN /\ spot' = [SubmitEnds(alert) EXCEPT !.net = @ \ {"create"}]
          /\ spotEv' = SpotStep("createReturns", {}, alert)
  /\ UNCHANGED exceptSpot

\* OK on the alert; on the success alert: router.back() ("picker") or the
\* reset of the photo and the step ("lambda")
alertOk ==
  /\ ~spot.closed /\ spot.alert # NoAlert
  /\ spot' =
       IF spot.alert # SubmitSucceeded THEN [spot EXCEPT !.alert = NoAlert]
       ELSE IF spot.variant = "picker"
         THEN [spot EXCEPT !.alert = NoAlert, !.closed = TRUE]
       ELSE [spot EXCEPT !.alert = NoAlert, !.capturedImage = Null,
                         !.step = "capture"]
  /\ spotEv' = SpotStep("alertOk", {}, NoAlert)
  /\ UNCHANGED exceptSpot

\* the close button of the picker variant: router.back()
handleClose ==
  /\ Interactive /\ spot.variant = "picker"
  /\ spot' = [spot EXCEPT !.closed = TRUE]
  /\ spotEv' = SpotStep("handleClose", {}, NoAlert)
  /\ UNCHANGED exceptSpot

\* the client as it was constructed, its probe answered
ApiIdle ==
  /\ authToken = Null /\ userId = Null /\ userEmail = Null
  /\ isConnected = FALSE /\ inflight = EmptyBag /\ last = NoStep

\* the client after a login that stored a session
ApiLoggedIn ==
  /\ authToken = "tokA" /\ userId = "u1" /\ userEmail = EmailOf("u1")
  /\ isConnected = TRUE /\ inflight = EmptyBag /\ last = NoStep

SpotIdle == spot = SpotMounted("picker") /\ spotEv = [handler |-> "none"]

SpotInit ==
  /\ ApiIdle \/ ApiLoggedIn
  /\ \E v \in {"picker", "lambda"} : spot = SpotMounted(v)
  /\ spotEv = [handler |-> "none"]

SpotNext ==
  \/ locationPermission \/ locationFix
  \/ handleTakePhoto \/ handlePickFromGallery \/ pickReturns
  \/ handleRetake \/ handleSubmit
  \/ imageStepReturns \/ createReturns
  \/ alertOk \/ handleClose

(***************************************************************************)
(* SignupScreen.  It calls api.verifyOTP and api.signup: with the legacy   *)
(* client ("legacy") these are requests that reject on failure; with the   *)
(* Lambda client ("lambda") api.verifyOTP and api.sendOTP do not exist and *)
(* the call throws a TypeError inside the try block.                       *)
(***************************************************************************)
\* the four OTP boxes, indices 0..3 as in the source
OtpBoxes == 4
OtpIndex == 0 .. (OtpBoxes - 1)

\* a box holds at most one character (maxLength={1}) of the number pad
DigitChars == {"7"}
BoxValues == {<<>>} \cup {<<d>> : d \in DigitChars}

\* otp.join("")
RECURSIVE JoinFrom(_, _)
JoinFrom(otp, i) ==
  IF i \notin DOMAIN otp THEN <<>> ELSE otp[i] \o JoinFrom(otp, i + 1)

Join(otp) == JoinFrom(otp, 0)

\* newOtp.every((digit) => digit !== "")
EveryFilled(otp) == \A i \in DOMAIN otp : otp[i] # <<>>

\* variant: any entered character makes the code complete
OtpCompleteNonEmpty(otp) == Len(Join(otp)) # 0

\* handleSignup: otpCode.length !== 4 is incomplete
OtpComplete(otp) == Len(Join(otp)) = 4

Emails == {"", "reika", "reika@pcu.edu.ph"}
Passwords == {"", "short", "longer-than-8"}
Phones == {"", "+63 023 123 2341"}

\* /^[^\s@]+@[^\s@]+\.[^\s@]+$/ on the modelled addresses
EmailValid(e) == e = "reika@pcu.edu.ph"

\* password.length < 8 on the modelled passwords
PasswordTooShort(pw) == pw = "short"

OtpFocus(i) == <<"otp", i>>
NoFocus == <<>>

AccountCreated == "Account created successfully!"

SignupMounted(api) ==
  [api |-> api, step |-> 1, loading |-> FALSE, email |-> "", password |-> "",
   phoneNumber |-> "", otpData |-> <<>>, agreedToTerms |-> FALSE,
   otp |-> [i \in OtpIndex |-> <<>>], focus |-> NoFocus, alert |-> NoAlert,
   pc |-> "idle", net |-> {}, screen |-> "signup"]

SignupStep(handler, sent, alert) ==
  [handler |-> handler, sent |-> sent, alert |-> alert, step |-> su.step,
   otpLen |-> Len(Join(su.otp)), index |-> 0, value |-> <<>>]

SuInteractive == su.screen = "signup" /\ su.alert = NoAlert

SuShows(alert, handler) ==
  /\ su' = [su EXCEPT !.alert = alert]
  /\ suEv' = SignupStep(handler, {}, alert)

\* handleNext, step === 1; the typed email and password are its inputs
handleNextStep1 ==
  /\ SuInteractive /\ su.step = 1 /\ ~su.loading
  /\ \E e \in Emails, pw \in Passwords :
       IF e = "" \/ pw = "" THEN SuShows("Please fill in all fields", "handleNext")
       ELSE IF ~EmailValid(e)
         THEN SuShows("Please enter a valid email address", "handleNext")
       ELSE IF PasswordTooShort(pw)
         THEN SuShows("Password must be at least 8 characters long", "handleNext")
       ELSE /\ su' = [su EXCEPT !.email = e, !.password = pw, !.step = 2]
            /\ suEv' = SignupStep("handleNext", {}, NoAlert)
  /\ UNCHANGED exceptSignup

\* handleNext, step === 2: medicalProof is never set, the upload is a stub
handleNextStep2 ==
  /\ SuInteractive /\ su.step = 2 /\ ~su.loading
  /\ su' = [su EXCEPT !.step = 3]
  /\ suEv' = SignupStep("handleNext", {}, NoAlert)
  /\ UNCHANGED exceptSignup

\* handleSignup up to its first await
SignupStart ==
  IF ~OtpComplete(su.otp)
    THEN SuShows("Please enter the complete OTP code", "handleNext")
  ELSE IF su.api = "lambda"
    THEN SuShows("api.verifyOTP is not a function", "handleNext")
  ELSE /\ su' = [su EXCEPT !.loading = TRUE, !.pc = "verifying",
                           !.net = @ \cup {"verifyOTP"}]
       /\ suEv' = SignupStep("handleNext", {"verifyOTP"}, NoAlert)

\* handleNext, step === 3
handleNextStep3 ==
  /\ SuInteractive /\ su.step = 3 /\ ~su.loading
  /\ IF su.phoneNumber = ""
       THEN SuShows("Please enter your phone number", "handleNext")
     ELSE IF ~su.agreedToTerms
       THEN SuShows("Please agree to the Terms of Service and Privacy Policy",
                    "handleNext")
     ELSE SignupStart
  /\ UNCHANGED exceptSignup

handleSkip ==
  /\ SuInteractive /\ su.step \in {2, 3}
  /\ su' = [su EXCEPT !.step = 3]
  /\ suEv' = SignupStep("handleSkip", {}, NoAlert)
  /\ UNCHANGED exceptSignup

handleSignupBack ==
  /\ SuInteractive
  /\ su' = IF su.step > 1 THEN [su EXCEPT !.step = @ - 1]
           ELSE [su EXCEPT !.screen = "welcome"]
  /\ suEv' = SignupStep("handleBack", {}, NoAlert)
  /\ UNCHANGED exceptSignup

setPhoneNumber ==
  /\ SuInteractive /\ su.step = 3
  /\ \E ph \in Phones : su' = [su EXCEPT !.phoneNumber = ph, !.focus = NoFocus]
  /\ suEv' = SignupStep("setPhoneNumber", {}, NoAlert)
  /\ UNCHANGED exceptSignup

toggleTerms ==
  /\ SuInteractive /\ su.step = 3
  /\ su' = [su EXCEPT !.agreedToTerms = ~@]
  /\ suEv' = SignupStep("toggleTerms", {}, NoAlert)
  /\ UNCHANGED exceptSignup

\* the user taps an OTP box: onFocus
focusOtp ==
  /\ SuInteractive /\ su.step = 3
  /\ \E i \in OtpIndex : su' = [su EXCEPT !.focus = OtpFocus(i)]
  /\ suEv' = SignupStep("focusOtp", {}, NoAlert)
  /\ UNCHANGED exceptSignup

\* if (value && index < 3) otpRefs[index + 1].current?.focus()
FocusAfter(value, index) ==
  IF value # <<>> /\ index < 3 THEN OtpFocus(index + 1) ELSE OtpFocus(index)

\* onChangeText of the focused box
handleOtpChange ==
  /\ SuInteractive /\ su.step = 3
  /\ \E index \in OtpIndex, value \in BoxValues :
       /\ su.focus = OtpFocus(index)
       /\ value # su.otp[index]
       /\ LET newOtp == [su.otp EXCEPT ![index] = value]
          IN su' = [su EXCEPT !.otp = newOtp,
                              !.focus = FocusAfter(value, index),
                              !.otpData = IF EveryFilled(newOtp)
                                            THEN Join(newOtp) ELSE @]
       /\ suEv' = [SignupStep("handleOtpChange", {}, NoAlert)
                     EXCEPT !.index = index, !.value = value]
  /\ UNCHANGED exceptSignup

handleResendOtp ==
  /\ SuInteractive /\ su.step = 3 /\ ~su.loading
  /\ IF su.api = "lambda"
       THEN SuShows("Failed to resend OTP", "handleResendOtp")
       ELSE /\ su' = [su EXCEPT !.loading = TRUE, !.pc = "resending",
                                !.net = @ \cup {"sendOTP"}]
            /\ suEv' = SignupStep("handleResendOtp", {"sendOTP"}, NoAlert)
  /\ UNCHANGED exceptSignup

SuEnds(req, alert) ==
  [su EXCEPT !.pc = "idle", !.loading = FALSE, !.net = @ \ {req},
             !.alert = alert]

sendOtpReturns ==
  /\ su.pc = "resending"
  /\ \E ok \in BOOLEAN :
       LET alert == IF ok THEN "OTP code has been resent"
                    ELSE "Failed to resend OTP"
       IN /\ su' = SuEnds("sendOTP", alert)
          /\ suEv' = SignupStep("sendOtpReturns", {}, alert)
  /\ UNCHANGED exceptSignup

\* variant: the outcome of the verification is not awaited inside the try
verifyOtpReturnsUnchecked ==
  /\ su.pc = "verifying"
  /\ su' = [su EXCEPT !.pc = "creating",
                      !.net = (@ \ {"verifyOTP"}) \cup {"signup"}]
  /\ \E ok \in BOOLEAN :
       suEv' = SignupStep("verifyOtpReturns", {"signup"},
                          IF ok THEN NoAlert ELSE "HTTP error! status: 400")
  /\ UNCHANGED exceptSignup

\* await api.verifyOTP(...): resolved, the signup request follows; rejected,
\* the catch block
verifyOtpReturns ==
  /\ su.pc = "verifying"
  /\ \E ok \in BOOLEAN :
       IF ok
         THEN /\ su' = [su EXCEPT !.pc = "creating",
                                  !.net = (@ \ {"verifyOTP"}) \cup {"signup"}]
              /\ suEv' = SignupStep("verifyOtpReturns", {"signup"}, NoAlert)
         ELSE /\ su' = SuEnds("verifyOTP", "HTTP error! status: 400")
              /\ suEv' = SignupStep("verifyOtpReturns", {},
                                    "HTTP error! status: 400")
  /\ UNCHANGED exceptSignup

signupCallReturns ==
  /\ su.pc = "creating"
  /\ \E ok \in BOOLEAN :
       LET alert == IF ok THEN AccountCreated ELSE "HTTP error! status: 400"
       IN /\ su' = SuEnds("signup", alert)
          /\ suEv' = SignupStep("signupCallReturns", {}, alert)
  /\ UNCHANGED exceptSignup

\* OK on the alert; on the success alert router.replace("/home")
signupAlertOk ==
  /\ su.screen = "signup" /\ su.alert # NoAlert
  /\ su' = [su EXCEPT !.alert = NoAlert,
                      !.screen = IF su.alert = AccountCreated THEN "home" ELSE @]
  /\ suEv' = SignupStep("alertOk", {}, NoAlert)
  /\ UNCHANGED exceptSignup

SignupIdle == su = SignupMounted("legacy") /\ suEv = [handler |-> "none"]

SignupInit ==
  /\ \E api \in {"legacy", "lambda"} : su = SignupMounted(api)
  /\ suEv = [handler |-> "none"]

SignupNext ==
  \/ handleNextStep1 \/ handleNextStep2 \/ handleNextStep3
  \/ handleSkip \/ handleSignupBack
  \/ setPhoneNumber \/ toggleTerms \/ focusOtp \/ handleOtpChange
  \/ handleResendOtp \/ sendOtpReturns
  \/ verifyOtpReturns \/ signupCallReturns \/ signupAlertOk

(***************************************************************************)
(* VoiceAIService (services/voiceAI.ts) and ReikoChatScreen, which drives  *)
(* it.  Messages are sequences of characters; the canned texts and the     *)
(* texts of the backend are plain strings.  An async call in flight is a   *)
(* record of the bag calls: the entry point that was invoked (op), the     *)
(* await it is suspended at (pc), its message (msg) and its response text  *)
(* (text).  A call whose awaited promise has resolved inside the service   *)
(* (pc stopDone, aiDone) continues in a microtask, before any other event. *)
(***************************************************************************)
\* number of async calls of the voice helper that may be in flight together
MaxCalls == 2

\* longest message given to getAIResponse when it is called directly
MaxMessageLen == 3

\* the lower-case letter of each upper-case letter
LowerOf ==
  [A |-> "a", B |-> "b", C |-> "c", D |-> "d", E |-> "e", F |-> "f",
   G |-> "g", H |-> "h", I |-> "i", J |-> "j", K |-> "k", L |-> "l",
   M |-> "m", N |-> "n", O |-> "o", P |-> "p", Q |-> "q", R |-> "r",
   S |-> "s", T |-> "t", U |-> "u", V |-> "v", W |-> "w", X |-> "x",
   Y |-> "y", Z |-> "z"]

\* String.prototype.toLowerCase
toLowerCase(s) ==
  [i \in 1 .. Len(s) |-> IF s[i] \in DOMAIN LowerOf THEN LowerOf[s[i]] ELSE s[i]]

\* String.prototype.includes
includes(s, k) ==
  \E i \in 0 .. (Len(s) - Len(k)) : \A j \in 1 .. Len(k) : s[i + j] = k[j]

\* the keywords of getFallbackResponse
Keywords ==
  [airQuality |-> <<"a", "i", "r", " ", "q", "u", "a", "l", "i", "t", "y">>,
   air |-> <<"a", "i", "r">>,
   pollution |-> <<"p", "o", "l", "l", "u", "t", "i", "o", "n">>,
   hotspot |-> <<"h", "o", "t", "s", "p", "o", "t">>,
   tip |-> <<"t", "i", "p">>,
   reduce |-> <<"r", "e", "d", "u", "c", "e">>,
   help |-> <<"h", "e", "l", "p">>,
   health |-> <<"h", "e", "a", "l", "t", "h">>,
   risk |-> <<"r", "i", "s", "k">>]

\* the canned texts of getFallbackResponse
Canned ==
  [air |-> "Based on current data, the air quality in your area is moderate. The AQI is around 65, which is acceptable but sensitive individuals should limit prolonged outdoor activity. Would you like tips on reducing your exposure?",
   hotspot |-> "I've detected 3 pollution hotspots near you. The closest one is about 500 meters away, likely from vehicle emissions. I recommend avoiding that route if possible. Would you like me to suggest an alternative path?",
   tips |-> "Here are some ways you can help reduce pollution: 1) Use public transport or walk when possible, 2) Reduce energy consumption at home, 3) Report pollution sources through the app, 4) Plant trees or support local green initiatives. Every small action counts!",
   health |-> "Based on current pollution levels and your location, the health risk is low to moderate. I recommend staying hydrated, avoiding strenuous outdoor activities during peak traffic hours, and keeping windows closed if you're near busy roads.",
   default |-> "I understand you're asking about environmental conditions. The current pollution levels in your area are within acceptable limits. Is there something specific you'd like to know about air quality, nearby pollution sources, or ways to help the environment?"]

FallbackOf(lowerMessage) ==
  IF includes(lowerMessage, Keywords.airQuality) \/ includes(lowerMessage, Keywords.air)
    THEN Canned.air
  ELSE IF includes(lowerMessage, Keywords.pollution) \/ includes(lowerMessage, Keywords.hotspot)
    THEN Canned.hotspot
  ELSE IF \/ includes(lowerMessage, Keywords.tip) \/ includes(lowerMessage, Keywords.reduce)
          \/ includes(lowerMessage, Keywords.help)
    THEN Canned.tips
  ELSE IF includes(lowerMessage, Keywords.health) \/ includes(lowerMessage, Keywords.risk)
    THEN Canned.health
  ELSE Canned.default

\* variant: the keywords are looked up in the message as typed
getFallbackResponseAsTyped(message) == FallbackOf(message)

getFallbackResponse(message) == FallbackOf(toLowerCase(message))

\* CONVERSATION_OPTIONS: the texts of the quick questions, by position
CONVERSATION_OPTIONS ==
  <<
    <<"W", "h", "a", "t", "'", "s", " ", "t", "h", "e", " ", "a", "i", "r",
      " ", "q", "u", "a", "l", "i", "t", "y", " ", "t", "o", "d", "a", "y",
      "?">>,
    <<"T", "i", "p", "s", " ", "t", "o", " ", "r", "e", "d", "u", "c", "e",
      " ", "p", "o", "l", "l", "u", "t", "i", "o", "n">>,
    <<"N", "e", "a", "r", "b", "y", " ", "p", "o", "l", "l", "u", "t", "i",
      "o", "n", " ", "h", "o", "t", "s", "p", "o", "t", "s">>,
    <<"H", "o", "w", " ", "c", "a", "n", " ", "I", " ", "h", "e", "l", "p",
      " ", "t", "h", "e", " ", "e", "n", "v", "i", "r", "o", "n", "m", "e",
      "n", "t", "?">>,
    <<"E", "x", "p", "l", "a", "i", "n", " ", "m", "y", " ", "h", "e", "a",
      "l", "t", "h", " ", "r", "i", "s", "k", "s">>
  >>

Transcript ==
  <<"W", "h", "a", "t", " ", "i", "s", " ", "t", "h", "e", " ", "a", "i",
    "r", " ", "q", "u", "a", "l", "i", "t", "y", " ", "t", "o", "d", "a",
    "y", "?">>

\* the quick questions pressed on the chat screen in the runs
PressedOptions == {CONVERSATION_OPTIONS[5]}

\* characters of the messages given to getAIResponse when it is called directly
TestChars == {"a", "A", "i", "r", "R", "x"}

TestMessages ==
  UNION {[1 .. n -> TestChars] : n \in 0 .. MaxMessageLen}
  \cup {CONVERSATION_OPTIONS[i] : i \in DOMAIN CONVERSATION_OPTIONS}
  \cup {Transcript}

\* data objects of the chat endpoint
ChatData ==
  {EmptyObj,
   [EmptyObj EXCEPT !.response = "The AQI near you is 42."],
   [EmptyObj EXCEPT !.advice = "Wear a mask outdoors today."],
   [EmptyObj EXCEPT !.message = "Wear a mask outdoors today."],
   [EmptyObj EXCEPT !.response = "", !.advice = "Wear a mask outdoors today."]}

ChatBodies ==
  ChatData
  \cup {[EmptyObj EXCEPT !.success = "true", !.data = d] :
          d \in {NoObj, EmptyObj,
                 [EmptyObj EXCEPT !.response = "The AQI near you is 42."]}}
  \cup {[EmptyObj EXCEPT !.success = "true",
                         !.advice = "Wear a mask outdoors today."],
        [EmptyObj EXCEPT !.success = "false", !.error = "Model unavailable"]}

ChatResponses ==
  {[kind |-> "neterr", status |-> 0, body |-> NoObj],
   [kind |-> "json", status |-> 401, body |-> EmptyObj]}
  \cup {[kind |-> "json", status |-> 200, body |-> b] : b \in ChatBodies}

\* what await api.sendChatMessage(...) gives getAIResponse: the envelope
\* request() makes of the response, or an exception
ChatOutcomes ==
  {[thrown |-> TRUE, env |-> FailEnvelope("thrown")]}
  \cup {[thrown |-> FALSE, env |-> Request(r)] : r \in ChatResponses}

\* variant: no fallback behind data.response || data.advice || data.message
AiResponseOfNoFallback(outcome, fallback) ==
  LET data == outcome.env.data
  IN IF outcome.thrown THEN fallback
     ELSE IF HasData(outcome.env)
       THEN Or3(data.response, data.advice, Or3(data.message, "", ""))
     ELSE fallback

\* getAIResponse: the text it returns for an outcome of the chat call, where
\* fallback is this.getFallbackResponse(userMessage)
AiResponseOf(outcome, fallback) ==
  LET data == outcome.env.data
  IN IF outcome.thrown THEN fallback
     ELSE IF HasData(outcome.env)
       THEN Or3(data.response, data.advice, Or3(data.message, fallback, fallback))
     ELSE fallback


\* the recording objects the model tells apart
MaxRecordings == 2

RecordingNames == <<"recording1", "recording2", "recording3">>

\* a startListening that keeps the recording it already holds
KeepRecording(v) ==
  IF v.recording # Null THEN v
  ELSE [v EXCEPT !.recording = RecordingNames[(v.lastId % v.ids) + 1],
                 !.lastId = (@ % v.ids) + 1]

\* this.recording = new Audio.Recording(): a new object each time; the
\* handle is the only reference the service keeps
NewRecording(v) ==
  [v EXCEPT !.recording = RecordingNames[(v.lastId % v.ids) + 1],
            !.lastId = (@ % v.ids) + 1]

\* the service as constructed; ids is the number of recording objects told
\* apart and lastId the object created last
VoiceConstructed(speech) ==
  [isListening |-> FALSE, isProcessing |-> FALSE, isSpeaking |-> FALSE,
   transcript |-> <<>>, response |-> "", error |-> Null,
   recording |-> Null, speech |-> speech, engine |-> "idle",
   ids |-> 1, lastId |-> 1]

ChatClosed ==
  [mounted |-> FALSE, leaving |-> FALSE, isListening |-> FALSE,
   isProcessing |-> FALSE, isSpeaking |-> FALSE]

Call(op, pc, msg, text) ==
  [op |-> op, pc |-> pc, msg |-> msg, text |-> text, rec |-> Null]

\* a call suspended in a native method of the recording object rec
On(c, rec) == [c EXCEPT !.rec = rec]

Spawn(c) == calls (+) SetToBag({c})
Drop(c) == calls (-) SetToBag({c})
Move(c, d) == (calls (-) SetToBag({c})) (+) SetToBag({d})

At(pc) == {c \in BagToSet(calls) : c.pc = pc}

\* a continuation is queued as a microtask
MicroPending == At("stopDone") \cup At("aiDone") # {}

\* the event loop takes the next task (a press, a native callback, a timer)
Task == ~MicroPending

Room == BagCardinality(calls) < MaxCalls

\* the subscription of the chat screen: setIsListening, setIsProcessing,
\* setIsSpeaking
Notify(c, v) ==
  IF c.mounted
    THEN [c EXCEPT !.isListening = v.isListening,
                   !.isProcessing = v.isProcessing,
                   !.isSpeaking = v.isSpeaking]
    ELSE c

\* updateState: the new state is stored and broadcast
updateState(v) == voice' = v /\ chat' = Notify(chat, v)

\* an assignment to a private field: nothing is broadcast
Assign(v) == voice' = v /\ UNCHANGED chat

\* ---- the chat screen ----
mountChat ==
  /\ Task /\ ~chat.mounted
  /\ chat' = [ChatClosed EXCEPT !.mounted = TRUE]
  /\ voiceEv' = [kind |-> "step"]
  /\ UNCHANGED <<voice, calls>>

\* stopListening up to its first await, called by processVoiceConversation
StopListeningCall ==
  IF voice.recording = Null
    THEN /\ calls' = Spawn(Call("processVoiceConversation", "stopDone", <<>>, ""))
         /\ voiceEv' = [kind |-> "stopNoRecording", result |-> <<>>,
                        pre |-> voice, preChat |-> chat]
         /\ UNCHANGED <<voice, chat>>
    ELSE /\ updateState([voice EXCEPT !.isListening = FALSE,
                                      !.isProcessing = TRUE])
         /\ calls' = Spawn(On(Call("processVoiceConversation", "unloading",
                                   <<>>, ""), voice.recording))
         /\ voiceEv' = [kind |-> "stopBegun", handle |-> voice.recording]

\* stopSpeaking up to its first await
StopSpeakingCall ==
  IF ~voice.speech
    THEN /\ updateState([voice EXCEPT !.isSpeaking = FALSE])
         /\ UNCHANGED calls
    ELSE /\ calls' = Spawn(Call("stopSpeaking", "speechStop", <<>>, ""))
         /\ UNCHANGED <<voice, chat>>

\* the mic button: onPress={isSpeaking ? handleStopSpeaking : handleMicPress},
\* disabled={isProcessing}
handleMicPress ==
  /\ Task /\ Room
  /\ chat.mounted /\ ~chat.leaving /\ ~chat.isProcessing
  /\ IF chat.isSpeaking
       THEN /\ StopSpeakingCall
            /\ voiceEv' = IF voice.speech THEN [kind |-> "step"]
                                          ELSE [kind |-> "stopSpeakingDone"]
     ELSE IF chat.isListening
       THEN StopListeningCall
     ELSE /\ calls' = Spawn(Call("startListening", "permission", <<>>, ""))
          /\ voiceEv' = [kind |-> "step"]
          /\ UNCHANGED <<voice, chat>>

\* getAIResponse up to its await
GetAIResponseCall ==
  /\ updateState([voice EXCEPT !.isProcessing = TRUE])
  /\ voiceEv' = [kind |-> "step"]

\* a quick question: disabled={isProcessing || isSpeaking}
handleOptionPress ==
  /\ Task /\ Room
  /\ chat.mounted /\ ~chat.leaving /\ ~chat.isProcessing /\ ~chat.isSpeaking
  /\ \E text \in PressedOptions :
       LET c == Call("processTextInput", "chat", text, "")
       IN GetAIResponseCall /\ calls' = Spawn(c)

\* cleanup() up to its first await; without a recording and without the
\* speech module it runs to its end
CleanupRuns == voice.recording = Null /\ ~voice.speech

CleanupVoice ==
  IF CleanupRuns
    THEN [voice EXCEPT !.isListening = FALSE, !.isProcessing = FALSE,
                       !.isSpeaking = FALSE]
    ELSE voice

CleanupCalls ==
  IF CleanupRuns THEN calls
  ELSE IF voice.recording # Null
    THEN Spawn(On(Call("cleanup", "cleanupUnload", <<>>, ""), voice.recording))
  ELSE Spawn(Call("cleanup", "cleanupSpeech", <<>>, ""))

\* what a cleanup() call leaves to observe
CleanupEvent ==
  IF voice.recording # Null
    THEN [kind |-> "cleanupBegun", handle |-> voice.recording]
  ELSE [kind |-> "step"]

\* handleBack: voiceAI.cleanup(); router.back()
handleChatBack ==
  /\ Task /\ (CleanupRuns \/ Room)
  /\ chat.mounted /\ ~chat.leaving
  /\ voice' = CleanupVoice
  /\ calls' = CleanupCalls
  /\ chat' = [(IF CleanupRuns THEN Notify(chat, CleanupVoice) ELSE chat)
                EXCEPT !.leaving = TRUE]
  /\ voiceEv' = CleanupEvent

\* the screen unmounts: unsubscribe(); voiceAI.cleanup()
unmountChat ==
  /\ Task /\ (CleanupRuns \/ Room)
  /\ chat.mounted
  /\ voice' = CleanupVoice
  /\ calls' = CleanupCalls
  /\ chat' = ChatClosed
  /\ voiceEv' = CleanupEvent

\* ---- startListening ----
StartFails(c) ==
  /\ updateState([voice EXCEPT !.error = "Failed to start recording"])
  /\ calls' = Drop(c)
  /\ voiceEv' = [kind |-> "startFailed"]

permissionReturns ==
  /\ Task
  /\ \E c \in At("permission"), permission \in {"granted", "denied", "throws"} :
       CASE permission = "denied" ->
              /\ updateState([voice EXCEPT !.error = "Microphone permission denied"])
              /\ calls' = Drop(c)
              /\ voiceEv' = [kind |-> "permissionDenied"]
         [] permission = "throws" -> StartFails(c)
         [] OTHER ->
              /\ Assign(NewRecording(voice))
              /\ calls' = Move(c, [c EXCEPT !.pc = "preparing"])
              /\ voiceEv' = [kind |-> "recordingCreated",
                             previous |-> voice.recording]

\* variant: the listening state is entered as soon as the recorder is
\* prepared
prepareReturnsOptimistic ==
  /\ Task
  /\ \E c \in At("preparing"), ok \in BOOLEAN :
       IF ok /\ voice.recording # Null
         THEN /\ calls' = Move(c, [c EXCEPT !.pc = "starting"])
              /\ updateState([voice EXCEPT !.isListening = TRUE])
              /\ voiceEv' = [kind |-> "step"]
         ELSE StartFails(c)

\* prepareToRecordAsync returned; this.recording.startAsync() is called next
prepareReturns ==
  /\ Task
  /\ \E c \in At("preparing"), ok \in BOOLEAN :
       IF ok /\ voice.recording # Null
         THEN /\ calls' = Move(c, [c EXCEPT !.pc = "starting"])
              /\ voiceEv' = [kind |-> "step"]
              /\ UNCHANGED <<voice, chat>>
         ELSE StartFails(c)

\* startAsync returned
startReturns ==
  /\ Task
  /\ \E c \in At("starting"), ok \in BOOLEAN :
       IF ok
         THEN /\ updateState([voice EXCEPT !.isListening = TRUE,
                                           !.error = Null, !.transcript = <<>>])
              /\ calls' = Drop(c)
              /\ voiceEv' = [kind |-> "listening"]
         ELSE StartFails(c)

\* ---- stopListening ----
\* stopAndUnloadAsync returned: getURI, recording = null, transcribeAudio
unloadReturns ==
  /\ Task
  /\ \E c \in At("unloading"), ok \in BOOLEAN, uri \in {Null, "file://recording.m4a"} :
       IF ~ok \/ voice.recording = Null
         THEN /\ updateState([voice EXCEPT !.isProcessing = FALSE,
                                           !.error = "Failed to process recording"])
              /\ calls' = Move(c, [c EXCEPT !.pc = "stopDone", !.rec = Null])
              /\ voiceEv' = [kind |-> "stopReturned", path |-> "exception",
                             result |-> <<>>]
       ELSE IF Truthy(uri)
         THEN /\ Assign([voice EXCEPT !.recording = Null])
              /\ calls' = Move(c, [c EXCEPT !.pc = "transcribing", !.rec = Null])
              /\ voiceEv' = [kind |-> "step"]
       ELSE /\ updateState([voice EXCEPT !.recording = Null,
                                         !.isProcessing = FALSE])
            /\ calls' = Move(c, [c EXCEPT !.pc = "stopDone", !.rec = Null])
            /\ voiceEv' = [kind |-> "stopReturned", path |-> "nouri",
                             result |-> <<>>]

\* variant: the transcript is stored and processing is left on
TranscribedStillProcessing == [voice EXCEPT !.transcript = Transcript]

\* updateState({ transcript, isProcessing: false })
Transcribed == [voice EXCEPT !.transcript = Transcript, !.isProcessing = FALSE]

\* the timer of transcribeAudio fired
transcribeReturns ==
  /\ Task
  /\ \E c \in At("transcribing") :
       /\ updateState(Transcribed)
       /\ calls' = Move(c, [c EXCEPT !.pc = "stopDone", !.msg = Transcript])
       /\ voiceEv' = [kind |-> "stopReturned", path |-> "transcript",
                             result |-> Transcript]

\* processVoiceConversation after await this.stopListening()
conversationContinues ==
  /\ \E c \in At("stopDone") :
       IF c.msg = <<>>
         THEN /\ calls' = Drop(c)
              /\ voiceEv' = [kind |-> "step"]
              /\ UNCHANGED <<voice, chat>>
         ELSE /\ GetAIResponseCall
              /\ calls' = Move(c, [c EXCEPT !.pc = "chat"])

\* ---- getAIResponse ----
chatReturns ==
  /\ Task
  /\ \E c \in At("chat") :
     \E fallback \in {getFallbackResponse(c.msg)}, outcome \in ChatOutcomes :
       LET aiResponse == AiResponseOf(outcome, fallback)
       IN /\ updateState([voice EXCEPT !.response = aiResponse,
                                       !.isProcessing = FALSE])
          /\ calls' = Move(c, [c EXCEPT !.pc = "aiDone", !.text = aiResponse])
          /\ voiceEv' = [kind |-> "aiReturned", msg |-> c.msg,
                         outcome |-> outcome, text |-> aiResponse]

\* getAIResponse called on the service directly
getAIResponse ==
  /\ calls = EmptyBag /\ ~chat.mounted
  /\ \E message \in TestMessages :
       LET c == Call("getAIResponse", "chat", message, "")
       IN GetAIResponseCall /\ calls' = Spawn(c)

\* ... and its result delivered to that caller
aiResponseDelivered ==
  /\ \E c \in At("aiDone") :
       /\ c.op = "getAIResponse"
       /\ calls' = Drop(c)
  /\ voiceEv' = [kind |-> "step"]
  /\ UNCHANGED <<voice, chat>>

\* ---- speak ----
\* processTextInput / processVoiceConversation after await getAIResponse:
\* speak(response) up to its await
speakBegins ==
  /\ \E c \in At("aiDone") :
       /\ c.op \in {"processTextInput", "processVoiceConversation"}
       /\ IF ~voice.speech
            THEN /\ updateState([voice EXCEPT !.isSpeaking = FALSE])
                 /\ calls' = Drop(c)
            ELSE /\ updateState([voice EXCEPT !.isSpeaking = TRUE])
                 /\ calls' = Move(c, Call(c.op, "speakStop", <<>>, ""))
  /\ voiceEv' = [kind |-> "step"]

\* await Speech.stop() returned; Speech.speak(text, { onDone, onError })
speakStopReturns ==
  /\ Task
  /\ \E c \in At("speakStop"), speech \in {"speaks", "stopThrows", "speakThrows"} :
       /\ IF speech = "speaks"
            THEN Assign([voice EXCEPT !.engine = "speaking"])
          ELSE IF speech = "speakThrows"
            THEN updateState([voice EXCEPT !.engine = "idle",
                                           !.isSpeaking = FALSE])
          ELSE updateState([voice EXCEPT !.isSpeaking = FALSE])
       /\ calls' = Drop(c)
       /\ voiceEv' = IF speech = "speaks" THEN [kind |-> "step"]
                                           ELSE [kind |-> "speakFailed"]

\* onDone / onError of the utterance
utteranceEnds ==
  /\ Task
  /\ voice.engine = "speaking"
  /\ updateState([voice EXCEPT !.engine = "idle", !.isSpeaking = FALSE])
  /\ voiceEv' = [kind |-> "utteranceEnded"]
  /\ UNCHANGED calls

\* ---- stopSpeaking ----
stopSpeakingReturns ==
  /\ Task
  /\ \E c \in At("speechStop"), ok \in BOOLEAN :
       /\ IF ok
            THEN updateState([voice EXCEPT !.engine = "idle",
                                           !.isSpeaking = FALSE])
            ELSE UNCHANGED <<voice, chat>>
       /\ calls' = Drop(c)
  /\ voiceEv' = [kind |-> "stopSpeakingDone"]

\* ---- cleanup ----
CleanedUp(v) ==
  [v EXCEPT !.isListening = FALSE, !.isProcessing = FALSE, !.isSpeaking = FALSE]

\* stopAndUnloadAsync returned or threw; this.recording = null
cleanupUnloadReturns ==
  /\ Task
  /\ \E c \in At("cleanupUnload") :
       IF voice.speech
         THEN /\ Assign([voice EXCEPT !.recording = Null])
              /\ calls' = Move(c, [c EXCEPT !.pc = "cleanupSpeech", !.rec = Null])
         ELSE /\ updateState(CleanedUp([voice EXCEPT !.recording = Null]))
              /\ calls' = Drop(c)
  /\ voiceEv' = [kind |-> "step"]

\* Speech.stop() returned or threw
cleanupSpeechReturns ==
  /\ Task
  /\ \E c \in At("cleanupSpeech"), ok \in BOOLEAN :
       /\ updateState(CleanedUp([voice EXCEPT
                                   !.engine = IF ok THEN "idle" ELSE @]))
       /\ calls' = Drop(c)
  /\ voiceEv' = [kind |-> "step"]

VoiceIdle ==
  /\ voice = VoiceConstructed(FALSE)
  /\ chat = ChatClosed
  /\ calls = EmptyBag
  /\ voiceEv = [kind |-> "none"]

VoiceInit ==
  /\ \E speech \in BOOLEAN : voice = VoiceConstructed(speech)
  /\ chat = ChatClosed
  /\ calls = EmptyBag
  /\ voiceEv = [kind |-> "none"]

\* the same service with MaxRecordings recording objects told apart
ListenInit ==
  /\ \E speech \in BOOLEAN :
       voice = [VoiceConstructed(speech) EXCEPT !.ids = MaxRecordings,
                                                !.lastId = MaxRecordings]
  /\ chat = ChatClosed
  /\ calls = EmptyBag
  /\ voiceEv = [kind |-> "none"]

VoiceNext ==
  \/ mountChat /\ UNCHANGED exceptVoice
  \/ handleMicPress /\ UNCHANGED exceptVoice
  \/ handleOptionPress /\ UNCHANGED exceptVoice
  \/ handleChatBack /\ UNCHANGED exceptVoice
  \/ unmountChat /\ UNCHANGED exceptVoice
  \/ permissionReturns /\ UNCHANGED exceptVoice
  \/ prepareReturns /\ UNCHANGED exceptVoice
  \/ startReturns /\ UNCHANGED exceptVoice
  \/ unloadReturns /\ UNCHANGED exceptVoice
  \/ transcribeReturns /\ UNCHANGED exceptVoice
  \/ conversationContinues /\ UNCHANGED exceptVoice
  \/ chatReturns /\ UNCHANGED exceptVoice
  \/ speakBegins /\ UNCHANGED exceptVoice
  \/ speakStopReturns /\ UNCHANGED exceptVoice
  \/ utteranceEnds /\ UNCHANGED exceptVoice
  \/ stopSpeakingReturns /\ UNCHANGED exceptVoice
  \/ cleanupUnloadReturns /\ UNCHANGED exceptVoice
  \/ cleanupSpeechReturns /\ UNCHANGED exceptVoice

\* the service called directly, one getAIResponse at a time
FallbackNext ==
  \/ getAIResponse /\ UNCHANGED exceptVoice
  \/ chatReturns /\ UNCHANGED exceptVoice
  \/ aiResponseDelivered /\ UNCHANGED exceptVoice

(***************************************************************************)
(* The mock Express backend (backend/README-LAMBDA.md).  A request is a    *)
(* method and a path of segments; Express runs the handler of the first    *)
(* route, in the order of definition, whose method and pattern match, and  *)
(* the last middleware when there is none.  A response is its status and   *)
(* the keys of its JSON body.                                              *)
(***************************************************************************)
\* the spots the list can hold in a run
MaxSpots == 4

Param == ":id"

Route(method, path, handler, keys) ==
  [method |-> method, path |-> path, handler |-> handler, keys |-> keys]

\* app.get / app.post / app.put in the order of the source
MockRoutes ==
  << Route("GET", <<"health">>, "json", {"status", "message", "timestamp"}),
     Route("POST", <<"auth", "signup">>, "json", {"token", "user"}),
     Route("POST", <<"auth", "login">>, "json", {"token", "user"}),
     Route("POST", <<"auth", "logout">>, "json", {"success", "message"}),
     Route("POST", <<"auth", "send-otp">>, "json", {"success", "message"}),
     Route("POST", <<"auth", "verify-otp">>, "json", {"success", "verified"}),
     Route("GET", <<"user", "profile">>, "json",
           {"id", "email", "phoneNumber", "createdAt"}),
     Route("PUT", <<"user", "profile">>, "json", {"id", "updatedAt"}),
     Route("GET", <<"pollution", "spots">>, "spots", {}),
     Route("GET", <<"pollution", "spots", "user">>, "spots", {}),
     Route("GET", <<"pollution", "spots", Param>>, "getSpotById", {}),
     Route("POST", <<"pollution", "spots">>, "createSpot", {}),
     Route("POST", <<"upload", "image">>, "json", {"url"}),
     Route("GET", <<"location", "search">>, "json", {}),
     Route("GET", <<"location", "places", "search">>, "json", {"results"}),
     Route("GET", <<"location", "places", "suggest">>, "json", {"suggestions"}),
     Route("GET", <<"location", "geocode", "reverse">>, "json",
           {"address", "latitude", "longitude"}),
     Route("GET", <<"location", "places", Param>>, "json", {"place"}),
     Route("POST", <<"location", "route">>, "json",
           {"distance", "duration", "steps"}),
     Route("POST", <<"ai", "chat">>, "json", {"message", "timestamp"}) >>

\* a route pattern matches a path segment by segment; :id matches any segment
Matches(route, method, path) ==
  /\ route.method = method
  /\ Len(route.path) = Len(path)
  /\ \A i \in DOMAIN path : route.path[i] \in {Param, path[i]}

\* variant: the route defined last wins
RouteOfLast(method, path) ==
  LET hits == {i \in DOMAIN MockRoutes : Matches(MockRoutes[i], method, path)}
  IN IF hits = {} THEN 0
     ELSE CHOOSE i \in hits : \A j \in hits : i >= j

\* the first matching route, 0 when no route matches
RouteOf(method, path) ==
  LET hits == {i \in DOMAIN MockRoutes : Matches(MockRoutes[i], method, path)}
  IN IF hits = {} THEN 0
     ELSE CHOOSE i \in hits : \A j \in hits : i <= j

\* the requests of a run: every pattern with its parameter filled in, and
\* paths no route defines
MockMethods == {"GET", "POST", "PUT", "DELETE"}
ParamValues == {"spot-1", "spot-9", "spot-t1"}
Fill(path, v) == [i \in DOMAIN path |-> IF path[i] = Param THEN v ELSE path[i]]
MockPaths ==
  {Fill(MockRoutes[i].path, v) : i \in DOMAIN MockRoutes, v \in ParamValues}
  \cup {<<"nowhere">>, <<"auth", "login", "x">>}

\* Date.now() at the time of a request
Ticks == {"t1", "t2"}
\* the id a POST body may carry: none, or the id of an existing spot
BodyIds == {Undef, "spot-1"}

Spot(id, createdAt) == [id |-> id, createdAt |-> createdAt]

\* const mockSpots = [ {id: "spot-1", ...}, {id: "spot-2", ...} ]
SeedSpots == <<Spot("spot-1", "t0"), Spot("spot-2", "t0")>>

\* { id: "spot-" + Date.now(), ...req.body, createdAt, userId }: an id of
\* the body replaces the generated one
NewSpot(tick, bodyId) ==
  Spot(IF bodyId = Undef THEN "spot-" \o tick ELSE bodyId, tick)

\* variant: a spot with the id of a stored one takes its place
PutSpot(list, newSpot) ==
  IF \E i \in DOMAIN list : list[i].id = newSpot.id
    THEN [i \in DOMAIN list |-> IF list[i].id = newSpot.id THEN newSpot
                                ELSE list[i]]
  ELSE Append(list, newSpot)

\* mockSpots.push(newSpot)
PushSpot(list, newSpot) == Append(list, newSpot)

Served(method, path, status, keys) ==
  [kind |-> "served", method |-> method, path |-> path,
   route |-> RouteOf(method, path), status |-> status, keys |-> keys,
   spot |-> NoObj]

\* the handlers that answer res.json(<literal>)
serveJson ==
  /\ \E method \in MockMethods, path \in MockPaths :
       /\ RouteOf(method, path) # 0
       /\ MockRoutes[RouteOf(method, path)].handler = "json"
       /\ srvEv' = Served(method, path, 200,
                          MockRoutes[RouteOf(method, path)].keys)
  /\ UNCHANGED mockSpots

\* GET /pollution/spots and GET /pollution/spots/user: res.json(mockSpots)
serveSpots ==
  /\ \E method \in MockMethods, path \in MockPaths :
       /\ RouteOf(method, path) # 0
       /\ MockRoutes[RouteOf(method, path)].handler = "spots"
       /\ srvEv' = Served(method, path, 200, {})
  /\ UNCHANGED mockSpots

\* mockSpots.find((s) => s.id === id): the first spot with the id, for an id
\* some spot has
Find(list, id) ==
  LET hits == {i \in DOMAIN list : list[i].id = id}
  IN list[CHOOSE i \in hits : \A j \in hits : i <= j]

\* GET /pollution/spots/:id
getSpotById ==
  /\ \E method \in MockMethods, path \in MockPaths :
       /\ RouteOf(method, path) # 0
       /\ MockRoutes[RouteOf(method, path)].handler = "getSpotById"
       /\ IF \E i \in DOMAIN mockSpots : mockSpots[i].id = path[3]
            THEN srvEv' = [Served(method, path, 200, {"id", "createdAt"})
                             EXCEPT !.spot = Find(mockSpots, path[3])]
            ELSE srvEv' = Served(method, path, 404, {"error"})
  /\ UNCHANGED mockSpots

\* POST /pollution/spots
postPollutionSpot ==
  /\ Len(mockSpots) < MaxSpots
  /\ \E method \in MockMethods, path \in MockPaths,
        tick \in Ticks, bodyId \in BodyIds :
       /\ RouteOf(method, path) # 0
       /\ MockRoutes[RouteOf(method, path)].handler = "createSpot"
       /\ mockSpots' = PushSpot(mockSpots, NewSpot(tick, bodyId))
       /\ srvEv' = [Served(method, path, 201, {"id", "createdAt", "userId"})
                      EXCEPT !.spot = NewSpot(tick, bodyId)]

\* app.use((req, res) => res.status(404).json({error, path})) after the routes
notFound ==
  /\ \E method \in MockMethods, path \in MockPaths :
       /\ RouteOf(method, path) = 0
       /\ srvEv' = Served(method, path, 404, {"error", "path"})
  /\ UNCHANGED mockSpots

MockIdle == mockSpots = SeedSpots /\ srvEv = [kind |-> "none"]

MockNext ==
  \/ serveJson /\ UNCHANGED exceptMock
  \/ serveSpots /\ UNCHANGED exceptMock
  \/ getSpotById /\ UNCHANGED exceptMock
  \/ postPollutionSpot /\ UNCHANGED exceptMock
  \/ notFound /\ UNCHANGED exceptMock

(***************************************************************************)
(* The legacy ApiService (part_008): request() throws on a failed fetch, a *)
(* non-2xx status or an unreadable body and returns the parsed body        *)
(* otherwise; the session is the token alone.                              *)
(***************************************************************************)
\* what fetch and response.json() give the legacy client: the token of the
\* body may be missing
LegacyResponses ==
  {[kind |-> "neterr", status |-> 0, token |-> Undef]}
  \cup {[kind |-> "badjson", status |-> s, token |-> Undef] : s \in Statuses}
  \cup {[kind |-> "json", status |-> s, token |-> t] :
          s \in Statuses, t \in Tokens \cup {Undef}}

\* request() returns the body: fetch resolved, response.ok, body parsed
LegacyResolves(resp) == resp.kind = "json" /\ Ok(resp.status)

\* if (this.authToken) headers["Authorization"] = `Bearer ${this.authToken}`
LegacyHeaders(tok) ==
  [ContentType |-> "application/json",
   Authorization |-> IF Truthy(tok) THEN Bearer(tok) ELSE NoHeader]

LegacyConstructed == [authToken |-> Null, net |-> EmptyBag]

LegacySent(op, endpoint, tok) ==
  [kind |-> "sent", op |-> op, method |-> "POST", endpoint |-> endpoint,
   headers |-> LegacyHeaders(tok), preToken |-> legacy.authToken]

\* this.post(endpoint, data) up to `await fetch`: the token is read now
LegacyPost(op, cont, endpoint, tok) ==
  /\ BagCardinality(legacy.net) < MaxInFlight
  /\ legacy' = [authToken |-> tok, net |-> legacy.net (+) SetToBag({cont})]
  /\ legacyEv' = LegacySent(op, endpoint, tok)

legacySignup == LegacyPost("signup", "auth", "/auth/signup", legacy.authToken)

legacyLogin == LegacyPost("login", "auth", "/auth/login", legacy.authToken)

legacySendOTP == LegacyPost("sendOTP", "plain", "/auth/send-otp", legacy.authToken)

\* the token request() finds when logout calls this.post: setAuthToken(null)
\* has run
LogoutToken == Null

\* logout: this.setAuthToken(null); return this.post("/auth/logout", {})
legacyLogout ==
  /\ BagCardinality(legacy.net) < MaxInFlight
  /\ legacy' = [authToken |-> Null, net |-> legacy.net (+) SetToBag({"plain"})]
  /\ legacyEv' = LegacySent("logout", "/auth/logout", LogoutToken)

\* signup and login after their await: this.setAuthToken(response.token),
\* skipped when request() threw
legacyAuthReturns ==
  /\ BagIn("auth", legacy.net)
  /\ \E resp \in LegacyResponses :
       /\ legacy' = [authToken |-> IF LegacyResolves(resp) THEN resp.token
                                   ELSE legacy.authToken,
                     net |-> legacy.net (-) SetToBag({"auth"})]
       /\ legacyEv' = [kind |-> "returned", op |-> "auth",
                       resolved |-> LegacyResolves(resp), token |-> resp.token]

\* every other call returns or rejects as request() does
legacyRequestReturns ==
  /\ BagIn("plain", legacy.net)
  /\ \E resp \in LegacyResponses :
       /\ legacy' = [legacy EXCEPT !.net = @ (-) SetToBag({"plain"})]
       /\ legacyEv' = [kind |-> "returned", op |-> "plain",
                       resolved |-> LegacyResolves(resp), token |-> Undef]

LegacyIdle == legacy = LegacyConstructed /\ legacyEv = [kind |-> "none"]

LegacyNext ==
  \/ legacySignup /\ UNCHANGED exceptLegacy
  \/ legacyLogin /\ UNCHANGED exceptLegacy
  \/ legacySendOTP /\ UNCHANGED exceptLegacy
  \/ legacyLogout /\ UNCHANGED exceptLegacy
  \/ legacyAuthReturns /\ UNCHANGED exceptLegacy
  \/ legacyRequestReturns /\ UNCHANGED exceptLegacy

(***************************************************************************)
(* HomeScreen: the map variant (src/unnamed/part_014, "map") and the       *)
(* placeholder variant (screens/HomeScreen.tsx, "placeholder").  Both run  *)
(* the location effect once, on mount, and offer Retry on a location       *)
(* error; the map variant has the debounced suggestion search.             *)
(***************************************************************************)
SEARCH_CONFIG == [DEBOUNCE_MS |-> 300, MIN_QUERY_LENGTH |-> 2]

\* time passes in steps of TickMs milliseconds
TickMs == 100

\* timers that may be pending, searches that may be in flight
MaxTimers == 2
MaxSearches == 2

\* what the user types into the search field
Texts == {<<>>, <<"a">>, <<"a", "b">>, <<"b", "c">>}

\* display_name of the place found for a query; a display name finds itself
DisplayName(query) ==
  IF query # <<>> /\ query[Len(query)] = "*" THEN query ELSE query \o <<"*">>

\* data.map(...) of the places Nominatim answers for a query
Places(query) ==
  <<[placeId |-> DisplayName(query), label |-> DisplayName(query)]>>

\* useState / useRef initial values; the location effect of the mount runs
HomeMounted(variant) ==
  [variant |-> variant, loading |-> TRUE, locationError |-> Null,
   locEffect |-> "permission", searchQuery |-> <<>>, searchResults |-> <<>>,
   isSearching |-> FALSE, showSearchResults |-> FALSE,
   timers |-> {}, searchTimeoutRef |-> 0, fetches |-> EmptyBag,
   idle |-> SEARCH_CONFIG.DEBOUNCE_MS, latest |-> {}]

\* if (loading) the spinner, else if (locationError) the error view, else
\* the map with the search bar
MapShown ==
  home.variant = "map" /\ ~home.loading /\ home.locationError = Null

\* the search field has just changed: no time has passed since
Edited(h) == [h EXCEPT !.idle = 0]

\* Location.requestForegroundPermissionsAsync() returned or threw
homePermissionReturns ==
  /\ home.locEffect = "permission"
  /\ \E status \in {"granted", "denied", "throws"} :
       home' =
         CASE status = "granted" -> [home EXCEPT !.locEffect = "locating"]
           [] status = "denied" ->
                [home EXCEPT !.locEffect = "done", !.loading = FALSE,
                             !.locationError = "Location permission denied"]
           [] OTHER ->
                [home EXCEPT !.locEffect = "done", !.loading = FALSE,
                             !.locationError = "Could not get your location"]
  /\ homeEv' = [kind |-> "step"]

\* Location.getCurrentPositionAsync({}) returned or threw
homePositionReturns ==
  /\ home.locEffect = "locating"
  /\ \E ok \in BOOLEAN :
       home' = IF ok
                 THEN [home EXCEPT !.locEffect = "done", !.loading = FALSE]
                 ELSE [home EXCEPT !.locEffect = "done", !.loading = FALSE,
                         !.locationError = "Could not get your location"]
  /\ homeEv' = [kind |-> "step"]

\* the Retry button of the error view
handleRetry ==
  /\ ~home.loading /\ home.locationError # Null
  /\ home' = IF home.variant = "map"
               THEN [home EXCEPT !.locationError = Null, !.loading = TRUE]
               ELSE [home EXCEPT !.loading = TRUE]
  /\ homeEv' = [kind |-> "retry"]

\* if (searchTimeoutRef.current) clearTimeout(searchTimeoutRef.current)
ClearTimeout(h) == {t \in h.timers : t.id # h.searchTimeoutRef}

\* the id setTimeout returns: one that no pending timer and no reference has
TimerId(h) ==
  CHOOSE i \in 1 .. (MaxTimers + 1) :
    /\ i # h.searchTimeoutRef /\ \A t \in h.timers : t.id # i
    /\ \A j \in 1 .. (i - 1) :
         j = h.searchTimeoutRef \/ \E t \in h.timers : t.id = j

handleSearchChange ==
  /\ MapShown
  /\ \E text \in Texts \ {home.searchQuery} :
       IF Len(text) < SEARCH_CONFIG.MIN_QUERY_LENGTH
         THEN /\ home' = Edited([home EXCEPT !.searchQuery = text,
                                   !.timers = ClearTimeout(home),
                                   !.searchResults = <<>>,
                                   !.showSearchResults = FALSE,
                                   !.latest = {}])
              /\ homeEv' = [kind |-> "shortInput"]
         ELSE /\ Cardinality(ClearTimeout(home)) < MaxTimers
              /\ home' = Edited([home EXCEPT !.searchQuery = text,
                                   !.timers = ClearTimeout(home) \cup
                                     {[id |-> TimerId(home), text |-> text,
                                       left |-> SEARCH_CONFIG.DEBOUNCE_MS]},
                                   !.searchTimeoutRef = TimerId(home)])
              /\ homeEv' = [kind |-> "step"]

\* TickMs milliseconds pass
tick ==
  /\ home' = [home EXCEPT
                !.idle = IF @ + TickMs > SEARCH_CONFIG.DEBOUNCE_MS
                           THEN SEARCH_CONFIG.DEBOUNCE_MS ELSE @ + TickMs,
                !.timers = {[t EXCEPT !.left = IF @ > TickMs THEN @ - TickMs
                                                              ELSE 0] :
                              t \in home.timers}]
  /\ home' # home
  /\ homeEv' = [kind |-> "step"]

Searches == BagCardinality(home.fetches)

\* the timer fires: performSearch(text) up to its fetch
timerFires ==
  /\ Searches < MaxSearches
  /\ \E t \in home.timers :
       /\ t.left = 0
       /\ home' = [home EXCEPT
                     !.timers = @ \ {t},
                     !.isSearching = TRUE, !.showSearchResults = TRUE,
                     !.fetches = @ (+) SetToBag({[for |-> "suggest",
                                                  query |-> t.text]}),
                     !.latest = {t.text}]
       /\ homeEv' = [kind |-> "searchIssued", query |-> t.text,
                     field |-> home.searchQuery, idle |-> home.idle]

\* performSearch after its fetch: the places, an empty list, or a failure
searchReturns ==
  /\ \E f \in BagToSet(home.fetches), answer \in {"places", "empty", "fails"} :
       /\ f.for = "suggest"
       /\ home' = [home EXCEPT
                     !.fetches = @ (-) SetToBag({f}),
                     !.searchResults = IF answer = "places"
                                         THEN Places(f.query) ELSE <<>>,
                     !.isSearching = FALSE]
       /\ homeEv' = [kind |-> "searchReturned", query |-> f.query]

\* setSearchQuery(place.label); setShowSearchResults(false);
\* setSearchResults([])
Selected(h, place) ==
  Edited([h EXCEPT !.searchQuery = place.label, !.showSearchResults = FALSE,
                   !.searchResults = <<>>, !.latest = {}])

\* a row of the dropdown is pressed
handleSelectSearchResult ==
  /\ MapShown /\ home.showSearchResults /\ home.searchResults # <<>>
  /\ home' = Selected(home, home.searchResults[1])
  /\ homeEv' = [kind |-> "selected"]

\* the clear button, rendered when searchQuery.length > 0 && !isSearching
clearSearch ==
  /\ MapShown /\ home.searchQuery # <<>> /\ ~home.isSearching
  /\ home' = Edited([home EXCEPT !.searchQuery = <<>>, !.searchResults = <<>>,
                                 !.showSearchResults = FALSE, !.latest = {}])
  /\ homeEv' = [kind |-> "cleared"]

\* the enter key: handleSearchSubmit up to its fetch
handleSearchSubmit ==
  /\ MapShown /\ home.searchQuery # <<>>
  /\ Searches < MaxSearches
  /\ home' = [home EXCEPT
                !.isSearching = TRUE,
                !.fetches = @ (+) SetToBag({[for |-> "submit",
                                             query |-> home.searchQuery]})]
  /\ homeEv' = [kind |-> "step"]

\* handleSearchSubmit after its fetch: the first place is selected, or an
\* alert is shown
submitReturns ==
  /\ \E f \in BagToSet(home.fetches), answer \in {"places", "empty", "fails"} :
       /\ f.for = "submit"
       /\ home' = [(IF answer = "places"
                      THEN Selected(home, Places(f.query)[1]) ELSE home)
                     EXCEPT !.fetches = @ (-) SetToBag({f}),
                            !.isSearching = FALSE]
       /\ homeEv' = [kind |-> "step"]

HomeIdle == home = HomeMounted("map") /\ homeEv = [kind |-> "none"]

HomeInit ==
  /\ \E v \in {"map", "placeholder"} : home = HomeMounted(v)
  /\ homeEv = [kind |-> "none"]

HomeNext ==
  \/ homePermissionReturns /\ UNCHANGED exceptHome
  \/ homePositionReturns /\ UNCHANGED exceptHome
  \/ handleRetry /\ UNCHANGED exceptHome
  \/ handleSearchChange /\ UNCHANGED exceptHome
  \/ tick /\ UNCHANGED exceptHome
  \/ timerFires /\ UNCHANGED exceptHome
  \/ searchReturns /\ UNCHANGED exceptHome
  \/ handleSelectSearchResult /\ UNCHANGED exceptHome
  \/ clearSearch /\ UNCHANGED exceptHome
  \/ handleSearchSubmit /\ UNCHANGED exceptHome
  \/ submitReturns /\ UNCHANGED exceptHome

(***************************************************************************)
(* LoginScreen: the variant that reads the envelope api.login returns      *)
(* (screens/LoginScreen.tsx, "envelope") and the variant that relies on    *)
(* api.login throwing (src/unnamed/part_013, "throwing"), each with the    *)
(* Lambda client (services/api.ts, "lambda") or the legacy client          *)
(* (src/unnamed/part_008, "legacy") behind "../services/api".              *)
(***************************************************************************)
Credentials == {"", " ", "reiko"}

\* String.prototype.trim
Trim(s) == IF s = " " THEN "" ELSE s

LoginFailedText == "Login failed. Please try again."

\* api.login of the Lambda client: the envelope of request(), never a throw
LambdaLogin(resp) ==
  [thrown |-> FALSE, message |-> Undef, value |-> Request(resp)]

\* api.login of the legacy client: request() throws on a rejected fetch, a
\* status that is not ok (errorData.message || the status text) and a body
\* that is not JSON, and returns the body; errorData.message and login's
\* response.token are a TypeError on the body null
LegacyLogin(resp) ==
  IF resp.kind = "json" /\ Ok(resp.status)
    THEN [thrown |-> FALSE, message |-> Undef, value |-> resp.body]
  ELSE IF resp.kind = "json"
    THEN [thrown |-> TRUE, value |-> EmptyObj,
          message |-> IF Truthy(resp.body.message)
                        THEN resp.body.message
                        ELSE HttpErrorText(resp.status)]
  ELSE IF resp.kind = "badjson" /\ ~Ok(resp.status)
    THEN [thrown |-> TRUE, value |-> EmptyObj,
          message |-> HttpErrorText(resp.status)]
  ELSE [thrown |-> TRUE, value |-> EmptyObj, message |-> ThrownMessage(resp)]

ApiLogin(client, resp) ==
  IF client = "lambda" THEN LambdaLogin(resp) ELSE LegacyLogin(resp)

\* router.replace("/home") is reached: the call did not throw and, in the
\* envelope variant, response.success is truthy
Navigates(screen, out) ==
  /\ ~out.thrown
  /\ screen = "envelope" => out.value.success = "true"

\* the text of the alert after api.login, "none" when /home is shown
LoginAlert(screen, out) ==
  IF Navigates(screen, out) THEN NoAlert
  ELSE IF out.thrown
    THEN (IF Truthy(out.message) THEN out.message ELSE LoginFailedText)
  ELSE IF Truthy(out.value.error) THEN out.value.error ELSE LoginFailedText

LoginMounted(screen, client) ==
  [screen |-> screen, client |-> client, email |-> "", password |-> "",
   loading |-> FALSE, alert |-> NoAlert, route |-> "/login",
   calling |-> FALSE]

\* the screen is shown and no alert covers it
LoginShown == li.route = "/login" /\ li.alert = NoAlert

setEmail ==
  /\ LoginShown
  /\ \E text \in Credentials \ {li.email} : li' = [li EXCEPT !.email = text]
  /\ liEv' = [kind |-> "step"]

setPassword ==
  /\ LoginShown
  /\ \E text \in Credentials \ {li.password} :
       li' = [li EXCEPT !.password = text]
  /\ liEv' = [kind |-> "step"]

\* the Login button, disabled={loading}: handleLogin up to its await
handleLogin ==
  /\ LoginShown /\ ~li.loading
  /\ IF Trim(li.email) = "" \/ Trim(li.password) = ""
       THEN /\ li' = [li EXCEPT !.alert = "Please enter email and password"]
            /\ liEv' = [kind |-> "rejected", sent |-> FALSE]
       ELSE /\ li' = [li EXCEPT !.loading = TRUE, !.calling = TRUE]
            /\ liEv' = [kind |-> "called", sent |-> TRUE,
                        email |-> li.email, password |-> li.password]

\* api.login returned or threw: the rest of handleLogin
handleLoginReturns ==
  /\ li.calling
  /\ \E resp \in Responses :
       \E out \in {ApiLogin(li.client, resp)} :
         /\ li' = [li EXCEPT
                     !.calling = FALSE, !.loading = FALSE,
                     !.route = IF Navigates(li.screen, out) THEN "/home" ELSE @,
                     !.alert = LoginAlert(li.screen, out)]
         /\ liEv' = [kind |-> "returned", out |-> out,
                     navigated |-> Navigates(li.screen, out)]

\* OK on the alert
loginAlertOk ==
  /\ li.alert # NoAlert
  /\ li' = [li EXCEPT !.alert = NoAlert]
  /\ liEv' = [kind |-> "step"]

LoginIdle ==
  li = LoginMounted("envelope", "lambda") /\ liEv = [kind |-> "none"]

LoginInit ==
  /\ \E screen \in {"envelope", "throwing"}, client \in {"lambda", "legacy"} :
       li = LoginMounted(screen, client)
  /\ liEv = [kind |-> "none"]

LoginNext ==
  \/ setEmail /\ UNCHANGED exceptLogin
  \/ setPassword /\ UNCHANGED exceptLogin
  \/ handleLogin /\ UNCHANGED exceptLogin
  \/ handleLoginReturns /\ UNCHANGED exceptLogin
  \/ loginAlertOk /\ UNCHANGED exceptLogin

(***************************************************************************)
(* Specifications: one per component, and the whole client                 *)
(***************************************************************************)
\* the client alone; the screens are not in use
InitApi == ApiInit /\ SpotIdle /\ SignupIdle /\ VoiceIdle
  /\ MockIdle /\ LegacyIdle /\ HomeIdle /\ LoginIdle

NextApi ==
  \/ signup /\ UNCHANGED exceptApi
  \/ login /\ UNCHANGED exceptApi
  \/ logout /\ UNCHANGED exceptApi
  \/ getProfile /\ UNCHANGED exceptApi
  \/ updateProfile /\ UNCHANGED exceptApi
  \/ getPollutionReports /\ UNCHANGED exceptApi
  \/ getPollutionSpots /\ UNCHANGED exceptApi
  \/ getReportById /\ UNCHANGED exceptApi
  \/ createReport /\ UNCHANGED exceptApi
  \/ createSpot /\ UNCHANGED exceptApi
  \/ getUserReports /\ UNCHANGED exceptApi
  \/ getAgoraToken /\ UNCHANGED exceptApi
  \/ submitVoiceReport /\ UNCHANGED exceptApi
  \/ getLocationTips /\ UNCHANGED exceptApi
  \/ getHealthAdvice /\ UNCHANGED exceptApi
  \/ sendChatMessage /\ UNCHANGED exceptApi
  \/ loginReturns /\ UNCHANGED exceptApi
  \/ signupReturns /\ UNCHANGED exceptApi
  \/ requestReturns /\ UNCHANGED exceptApi
  \/ checkConnectionReturns /\ UNCHANGED exceptApi

SpecApi == InitApi /\ [][NextApi]_vars

\* the spot screen over a client that is logged in or not
InitSpot == SpotInit /\ SignupIdle /\ VoiceIdle
  /\ MockIdle /\ LegacyIdle /\ HomeIdle /\ LoginIdle

SpecSpot == InitSpot /\ [][SpotNext]_vars

\* the signup screen over either client
InitSignup == SignupInit /\ ApiIdle /\ SpotIdle /\ VoiceIdle
  /\ MockIdle /\ LegacyIdle /\ HomeIdle /\ LoginIdle

SpecSignup == InitSignup /\ [][SignupNext]_vars

InitVoice == VoiceInit /\ ApiIdle /\ SpotIdle /\ SignupIdle
  /\ MockIdle /\ LegacyIdle /\ HomeIdle /\ LoginIdle

\* the voice helper driven by the chat screen
SpecVoice == InitVoice /\ [][VoiceNext]_vars

InitListen == ListenInit /\ ApiIdle /\ SpotIdle /\ SignupIdle
  /\ MockIdle /\ LegacyIdle /\ HomeIdle /\ LoginIdle

\* the voice helper with the identity of its recording objects
SpecListen == InitListen /\ [][VoiceNext]_vars

InitMock ==
  /\ MockIdle /\ ApiIdle /\ SpotIdle /\ SignupIdle /\ VoiceIdle /\ LegacyIdle
  /\ HomeIdle /\ LoginIdle

\* the mock backend answering requests one at a time
SpecMock == InitMock /\ [][MockNext]_vars

InitLegacy ==
  /\ LegacyIdle /\ ApiIdle /\ SpotIdle /\ SignupIdle /\ VoiceIdle /\ MockIdle
  /\ HomeIdle /\ LoginIdle

\* the legacy client alone
SpecLegacy == InitLegacy /\ [][LegacyNext]_vars

InitHome ==
  /\ HomeInit /\ ApiIdle /\ SpotIdle /\ SignupIdle /\ VoiceIdle /\ MockIdle
  /\ LegacyIdle /\ LoginIdle

\* the home screen from its mount on
SpecHome == InitHome /\ [][HomeNext]_vars

\* the location effect's native calls complete, timers fire and fetches end
FairSpecHome ==
  /\ SpecHome
  /\ WF_vars(homePermissionReturns /\ UNCHANGED exceptHome)
  /\ WF_vars(homePositionReturns /\ UNCHANGED exceptHome)
  /\ WF_vars(timerFires /\ UNCHANGED exceptHome)
  /\ WF_vars(searchReturns /\ UNCHANGED exceptHome)
  /\ WF_vars(submitReturns /\ UNCHANGED exceptHome)

InitLogin ==
  /\ LoginInit /\ ApiIdle /\ SpotIdle /\ SignupIdle /\ VoiceIdle /\ MockIdle
  /\ LegacyIdle /\ HomeIdle

\* the login screen from its mount on
SpecLogin == InitLogin /\ [][LoginNext]_vars

\* getAIResponse and the fallback responder on bounded messages
SpecFallback == InitVoice /\ [][FallbackNext]_vars

\* the event loop runs every queued microtask and delivers every native
\* completion and timer
FairSpecVoice ==
  /\ SpecVoice
  /\ SF_vars(unloadReturns /\ UNCHANGED exceptVoice)
  /\ SF_vars(transcribeReturns /\ UNCHANGED exceptVoice)
  /\ WF_vars(conversationContinues /\ UNCHANGED exceptVoice)
  /\ WF_vars(speakBegins /\ UNCHANGED exceptVoice)

Init == InitApi

Next ==
  \/ NextApi \/ SpotNext \/ SignupNext \/ VoiceNext \/ FallbackNext
  \/ MockNext \/ LegacyNext \/ HomeNext \/ LoginNext

Spec == Init /\ [][Next]_vars

(***************************************************************************)
(* Claims about the HTTP client                                            *)
(***************************************************************************)
LoginDone == last.type = "done" /\ last.op = "login"

\* the access token and the user id a response body carries, in its data
\* object or at its top level
TokenIn(body) ==
  IF body.data # NoObj THEN body.data.accessToken ELSE body.accessToken

UserIn(body) ==
  IF body.data # NoObj THEN body.data.userId ELSE body.userId

\* C1: after a login whose response is a 200 with success:true, the stored
\* authToken and userId are the access token and user id of that response.
C1_LoginStoresResponse ==
  (LoginDone /\ last.net = "json" /\ last.status = 200
     /\ last.body.success = "true")
  => /\ TokenIn(last.body) # Undef => authToken = TokenIn(last.body)
     /\ UserIn(last.body) # Undef => userId = UserIn(last.body)

GatedOps ==
  {"createReport", "createSpot", "updateProfile", "getUserReports",
   "getAgoraToken", "submitVoiceReport", "getProfile"}

\* C3: with userId null a user-gated operation puts no request on the wire
\* and returns {success:false, error:"User not logged in"} with the client
\* state unchanged.
C3_GatedNeedsUser ==
  /\ (last.type = "sent" /\ last.op \in GatedOps) => userId # Null
  /\ (last.type = "done" /\ last.op \in GatedOps /\ last.preUserId = Null)
       => /\ last.net = "local"
          /\ last.result = NotLoggedIn
          /\ authToken = last.preToken
          /\ userId = Null

\* createSpot returned locally after a logout, another call still pending
C3_Witness ==
  /\ last.type = "done" /\ last.op = "createSpot" /\ last.net = "local"
  /\ userId = Null
  /\ Pending > 0

\* C7: every request of request() and the probe carry Content-Type
\* application/json, and Authorization: Bearer t exactly when the stored
\* authToken is a token t when the request is issued (none after logout).
C7_Headers ==
  last.type = "sent"
  => /\ last.headers.ContentType = "application/json"
     /\ last.headers.Authorization =
          IF authToken \in Tokens THEN Bearer(authToken) ELSE NoHeader

C7_Witness ==
  /\ last.type = "sent" /\ last.op = "getPollutionReports"
  /\ last.headers.Authorization = Bearer("tokB")

(***************************************************************************)
(* Claims about the spot screen                                            *)
(***************************************************************************)
\* C4: in both variants, Submit pressed while location is null (or without
\* a photo) shows "Missing photo or location data", issues no request
\* (upload, conversion fetch, create) and leaves loading false.
C4_SubmitNeedsLocation ==
  (spotEv.handler = "handleSubmit" /\ (~spotEv.hadLocation \/ ~spotEv.hadImage))
  => /\ spotEv.alert = MissingData
     /\ spot.alert = MissingData
     /\ spotEv.sent = {}
     /\ spot.net = {}
     /\ spot.submit = "idle"
     /\ spot.loading = FALSE

\* the Lambda variant, a photo taken, the location fix failed
C4_Witness ==
  /\ spotEv.handler = "handleSubmit" /\ ~spotEv.hadLocation
  /\ spot.variant = "lambda" /\ spot.capturedImage # Null
  /\ spot.locEffect = "done"

(***************************************************************************)
(* Claims about the signup screen                                          *)
(***************************************************************************)
\* C6: a character entered in OTP box i < 3 moves the focus to box i + 1;
\* the OTP is complete only when otp.join("") has length 4: with fewer
\* characters, Next on step 3 shows an alert and sends neither the verifyOTP
\* nor the signup request.
C6_OtpGate ==
  /\ (suEv.handler = "handleOtpChange" /\ suEv.value # <<>> /\ suEv.index < 3)
       => su.focus = OtpFocus(suEv.index + 1)
  /\ (suEv.handler = "handleNext" /\ suEv.step = 3 /\ suEv.otpLen < 4)
       => /\ suEv.alert # NoAlert /\ su.alert = suEv.alert
          /\ suEv.sent = {}
          /\ su.net \cap {"verifyOTP", "signup"} = {}
          /\ ~su.loading
  /\ (suEv.handler = "handleNext" /\ "verifyOTP" \in suEv.sent)
       => suEv.otpLen = 4

\* three of the four boxes filled, phone and terms given, Next pressed
C6_Witness ==
  /\ suEv.handler = "handleNext" /\ suEv.step = 3 /\ suEv.otpLen = 3
  /\ su.phoneNumber # "" /\ su.agreedToTerms
  /\ su.alert = "Please enter the complete OTP code"
  /\ su.focus = OtpFocus(3)

(***************************************************************************)
(* Claims about the voice helper and the chat screen                       *)
(***************************************************************************)
\* the chat call gave getAIResponse nothing to answer with: an exception, a
\* success:false envelope, no data, or data without response/advice/message
ChatFailed(outcome) ==
  \/ outcome.thrown
  \/ outcome.env.success # "true"
  \/ outcome.env.data = NoObj
  \/ \A f \in {"response", "advice", "message"} : ~Truthy(outcome.env.data[f])

SameLetter(c, k) == c = k \/ (c \in DOMAIN LowerOf /\ LowerOf[c] = k)

\* the keyword occurs in the message, in any mix of cases
ContainsAnyCase(m, k) ==
  \E i \in 0 .. (Len(m) - Len(k)) :
    \A j \in 1 .. Len(k) : SameLetter(m[i + j], k[j])

\* the canned text of a message, as a function of the message alone
CannedFor(m) ==
  IF ContainsAnyCase(m, Keywords.air) THEN Canned.air
  ELSE IF ContainsAnyCase(m, Keywords.pollution) \/ ContainsAnyCase(m, Keywords.hotspot)
    THEN Canned.hotspot
  ELSE IF \/ ContainsAnyCase(m, Keywords.tip) \/ ContainsAnyCase(m, Keywords.reduce)
          \/ ContainsAnyCase(m, Keywords.help)
    THEN Canned.tips
  ELSE IF ContainsAnyCase(m, Keywords.health) \/ ContainsAnyCase(m, Keywords.risk)
    THEN Canned.health
  ELSE Canned.default

\* C5: when the chat call fails, getAIResponse returns a canned text that
\* depends on the message alone, whatever the state of the service and the
\* calls before; for a message containing "air" in any mix of cases, and so
\* for "What's the air quality today?", it is the air-quality text.
C5_FallbackIsPure ==
  (voiceEv.kind = "aiReturned" /\ ChatFailed(voiceEv.outcome))
  => /\ voiceEv.text = CannedFor(voiceEv.msg)
     /\ ContainsAnyCase(voiceEv.msg, Keywords.air) => voiceEv.text = Canned.air
     /\ voiceEv.msg = CONVERSATION_OPTIONS[1] => voiceEv.text = Canned.air

\* "AiR" answered with the air-quality text after the chat call threw
C5_Witness ==
  /\ voiceEv.kind = "aiReturned" /\ voiceEv.outcome.thrown
  /\ voiceEv.msg = <<"A", "i", "R">>
  /\ voiceEv.text = Canned.air

\* C8: at most one of isListening, isProcessing and isSpeaking is true in
\* every state the chat screen can drive the helper into.
C8_SingleStatus ==
  Cardinality({f \in {"isListening", "isProcessing", "isSpeaking"} : voice[f]}) =< 1

\* C9: getAIResponse returns for every outcome of the chat call; it ends with
\* isProcessing false and state.response equal to the returned text, which
\* is never empty and is the fallback text of the message when the chat call
\* failed.
C9_AiResponseNeverFails ==
  voiceEv.kind = "aiReturned"
  => /\ ~voice.isProcessing
     /\ voice.response = voiceEv.text
     /\ voiceEv.text # ""
     /\ ChatFailed(voiceEv.outcome)
          => voiceEv.text = getFallbackResponse(voiceEv.msg)

\* the transcript of a voice conversation answered by the fallback after a
\* 200 response whose data has no usable field
C9_Witness ==
  /\ voiceEv.kind = "aiReturned" /\ voiceEv.msg = Transcript
  /\ ~voiceEv.outcome.thrown /\ voiceEv.outcome.env.data = EmptyObj
  /\ voiceEv.text = Canned.air /\ voice.response = Canned.air

StopInFlight == At("unloading") \cup At("transcribing") # {}

StopEnded == voiceEv.kind = "stopReturned" /\ ~voice.isProcessing

C10_StopSteps ==
  /\ voiceEv.kind = "stopBegun"
       => ~voice.isListening /\ voice.isProcessing /\ At("unloading") # {}
  /\ voiceEv.kind = "stopReturned"
       => /\ ~voice.isProcessing
          /\ voiceEv.path = "transcript"
               => voiceEv.result # <<>> /\ voice.transcript = voiceEv.result
          /\ voiceEv.path # "transcript" => voiceEv.result = <<>>
  /\ voiceEv.kind = "stopNoRecording"
       => /\ voiceEv.result = <<>>
          /\ voice = voiceEv.pre /\ chat = voiceEv.preChat

\* C10: stopListening with a recording sets isListening false and
\* isProcessing true before it awaits; whichever way it ends (transcript, no
\* URI, exception) it ends, with isProcessing false and, on success,
\* state.transcript equal to the returned transcript; without a recording it
\* returns '' and changes no state.
C10_StopListening == [](C10_StopSteps) /\ (StopInFlight ~> StopEnded)

\* stopListening returned the transcript
C10_Witness ==
  /\ voiceEv.kind = "stopReturned" /\ voiceEv.path = "transcript"
  /\ voice.transcript = Transcript /\ ~voice.isProcessing

\* ---- C11 ----
\* calls suspended in stopAndUnloadAsync of the recording object rec
UnloadingOn(rec) ==
  {c \in At("unloading") \cup At("cleanupUnload") : c.rec = rec}

\* C11: startListening has no re-entrancy guard. Whenever a startListening
\* call passes the permission request it goes on to prepare a recording,
\* whether or not a recording is already stored, and the stored handle is
\* then a new object different from the one held before; stopListening and
\* cleanup stop only the object the handle refers to at the time they are
\* called, so the object that was overwritten is out of their reach.
C11_StartOverwritesHandle ==
  /\ voiceEv.kind = "recordingCreated" =>
        /\ At("preparing") # {}
        /\ voice.recording # Null
        /\ voice.recording # voiceEv.previous
        /\ voice.recording = RecordingNames[voice.lastId]
  /\ voiceEv.kind \in {"stopBegun", "cleanupBegun"} =>
        /\ voiceEv.handle = voice.recording
        /\ UnloadingOn(voice.recording) # {}
  /\ voice.recording \in {Null, RecordingNames[voice.lastId]}

\* a second startListening created a recording while one was stored, and the
\* first call is still preparing its own
C11_Witness ==
  /\ voiceEv.kind = "recordingCreated"
  /\ voiceEv.previous # Null
  /\ \/ \E c \in At("preparing") : CopiesIn(c, calls) = 2
     \/ At("starting") # {}
  /\ voice.recording # voiceEv.previous


\* ---- C12 ----
\* C12: overlapping calls do not race on the session. In the state that
\* logout() leaves behind no login or signup has been invoked since the
\* logout, so whatever happens next, be it the response of a call that was
\* already in flight or a new invocation, authToken and userId are still null
\* after it.
C12_LogoutIsFinal ==
  [][last.type = "logout" => (authToken' = Null /\ userId' = Null)]_vars


\* ---- C13 ----
ImageRequests == {"upload", "convert"}

\* C13: the image step and the create step of a submission are strictly
\* sequential. The create request is issued only by the continuation that
\* runs when the image upload or conversion has returned, never by
\* handleSubmit itself, and an image request and a create request are never
\* in flight together.
C13_ImageThenCreate ==
  /\ ~("create" \in spot.net /\ spot.net \cap ImageRequests # {})
  /\ (spotEv.handler # "none" /\ "create" \in spotEv.sent) =>
        /\ spotEv.handler = "imageStepReturns"
        /\ spot.net = {"create"}
  /\ spotEv.handler = "handleSubmit" => spotEv.sent \subseteq ImageRequests
  /\ Cardinality(spot.net) <= 1

\* the image step of a submission has returned and its create request is on
\* the wire
C13_Witness ==
  /\ spotEv.handler = "imageStepReturns"
  /\ "create" \in spotEv.sent
  /\ spot.submit = "create"
  /\ spot.net = {"create"}


\* ---- C14 ----
\* some route is defined for the request
Defined(ev) ==
  \E i \in DOMAIN MockRoutes : Matches(MockRoutes[i], ev.method, ev.path)

\* GET /pollution/spots/<id> for an id, other than the literal "user", that
\* no stored spot has
UnknownSpot(ev) ==
  /\ ev.method = "GET" /\ Len(ev.path) = 3
  /\ ev.path[1] = "pollution" /\ ev.path[2] = "spots" /\ ev.path[3] # "user"
  /\ \A i \in DOMAIN mockSpots : mockSpots[i].id # ev.path[3]

PostedSpot(ev) ==
  ev.kind = "served" /\ ev.method = "POST" /\ ev.path = <<"pollution", "spots">>

\* C15: the spots list is changed by POST /pollution/spots alone, and that
\* request appends exactly one element: every step either leaves the list
\* as it is or is such a POST, after which the list is the old list with one
\* element behind it.
C15_OnlyPostAppends ==
  [][/\ PostedSpot(srvEv') =>
          /\ Len(mockSpots') = Len(mockSpots) + 1
          /\ SubSeq(mockSpots', 1, Len(mockSpots)) = mockSpots
     /\ ~PostedSpot(srvEv') => mockSpots' = mockSpots]_vars

\* a POST whose body carries the id of a stored spot was appended behind the
\* two seed spots, which are still there
C15_Witness ==
  /\ PostedSpot(srvEv)
  /\ Len(mockSpots) = Len(SeedSpots) + 1
  /\ mockSpots[3].id = "spot-1"
  /\ SubSeq(mockSpots, 1, 2) = SeedSpots


\* ---- C16 ----
\* C16: every client operation issues at most one HTTP request per
\* invocation and nothing is re-sent. A step that sends a request is the
\* invocation of an operation and adds one request to those in flight; a
\* step in which a response arrives, failed or not, takes that request away
\* and sends nothing; an operation that returns without a request and
\* logout leave the requests in flight as they are.
C16_OneRequestPerCall ==
  [][/\ last'.type = "sent" => Pending' = Pending + 1
     /\ (last'.type = "done" /\ last'.net = "local") => inflight' = inflight
     /\ (last'.type = "done" /\ last'.net # "local") => Pending' = Pending - 1
     /\ last'.type = "probed" => Pending' = Pending - 1
     /\ last'.type = "logout" => inflight' = inflight]_vars

\* a request failed on the network, its operation returned the failure and
\* no request is in flight
C16_Witness ==
  /\ last.type = "done" /\ last.net = "neterr"
  /\ last.result.success = "false"
  /\ inflight = EmptyBag


\* ---- C17 ----
\* C17: a successful signup establishes the session as login does: after a
\* signup whose response is a 2xx with success:true, the stored userId and
\* authToken are the user id and access token of that response.
C17_SignupEstablishesSession ==
  (last.type = "done" /\ last.op = "signup" /\ last.net = "json"
     /\ Ok(last.status) /\ last.body.success = "true")
  => /\ TokenIn(last.body) # Undef => authToken = TokenIn(last.body)
     /\ UserIn(last.body) # Undef => userId = UserIn(last.body)

\* ---- C18 ----
\* C18: the legacy logout sends POST /auth/logout with the Authorization
\* header of the session it ends, and the token is null afterwards.
C18_LogoutCarriesToken ==
  (legacyEv.kind = "sent" /\ legacyEv.op = "logout")
  => /\ legacyEv.method = "POST" /\ legacyEv.endpoint = "/auth/logout"
     /\ Truthy(legacyEv.preToken) =>
          legacyEv.headers.Authorization = Bearer(legacyEv.preToken)
     /\ legacy.authToken = Null


C20_RequestEnvelope ==
  (last.type = "done" /\ last.net # "local") =>
    /\ last.result.success \in {"true", "false"}
    /\ last.net \in {"neterr", "badjson"} =>
         /\ last.result.success = "false"
         /\ Truthy(last.result.error)
    /\ (last.net \in {"json", "jsonnull"} /\ Ok(last.status)) =>
         IF last.net = "json" /\ last.body.success \in {"true", "false"}
           THEN last.result = last.body
         ELSE last.result = WrapEnvelope(last.body)


\* ---- C21 ----
\* the spots of the list that were created by a POST
Created == {mockSpots[i] : i \in (Len(SeedSpots) + 1) .. Len(mockSpots)}

\* a GET /pollution/spots/<id>
SpotRequested(ev) ==
  /\ ev.kind = "served" /\ ev.method = "GET" /\ Len(ev.path) = 3
  /\ ev.path[1] = "pollution" /\ ev.path[2] = "spots" /\ ev.path[3] # "user"

\* C21: a created spot is retrievable under the id of its creation response:
\* a GET /pollution/spots/{id} for the id of a created spot answers with
\* that spot, whatever the bodies of the creations and however many there
\* were.
C21_CreatedIsRetrievable ==
  SpotRequested(srvEv) =>
    \A s \in Created :
      s.id = srvEv.path[3] => (srvEv.status = 200 /\ srvEv.spot = s)


C23_CreateSpotKeepsFields ==
  (last.type = "sent" /\ last.op = "createSpot") =>
    /\ last.payload.latitude = last.request.latitude
    /\ last.payload.longitude = last.request.longitude
    /\ last.payload.severity = last.request.severity
    /\ last.payload.description = last.request.description
    /\ last.request.pollutionType # Undef =>
         last.payload.pollutionType = last.request.pollutionType

\* C25: the helper always returns to not-speaking: isSpeaking is false when the
\* utterance has finished or errored, when speak has failed, and when
\* stopSpeaking has completed, whether the engine's stop call succeeded or
\* threw and whether or not the speech module is available.
C25_SpeakingEnds ==
  voiceEv.kind \in {"utteranceEnded", "speakFailed", "stopSpeakingDone"}
    => ~voice.isSpeaking

\* the chat screen is unmounted, so nothing invokes the helper, and every
\* cleanup() call has run to its end
CleanupCompleted ==
  /\ ~chat.mounted
  /\ At("cleanupUnload") = {} /\ At("cleanupSpeech") = {}

\* C30: once cleanup() has completed and no further operation is invoked,
\* isListening, isProcessing and isSpeaking are false and no recording is
\* held, also when calls were in flight at the moment cleanup was called.
C30_CleanupIsFinal ==
  CleanupCompleted =>
    /\ ~voice.isListening /\ ~voice.isProcessing /\ ~voice.isSpeaking
    /\ voice.recording = Null

\* C27: the form step always has a photo: step = "form" implies that
\* capturedImage is not null, whatever sequence of take photo, pick from
\* gallery, retake, submit and reset after a successful submit has run.
C27_FormHasPhoto == spot.step = "form" => spot.capturedImage # Null

\* a photo has just come back from the camera or the gallery
C27_Witness ==
  /\ spotEv.handler = "pickReturns"
  /\ spot.step = "form" /\ spot.capturedImage \in ImageUris

(***************************************************************************)
(* Claims about the home screen                                            *)
(***************************************************************************)
OneTimer == Cardinality(home.timers) =< 1

\* a suggestion search is issued for the text the search field holds, of
\* at least MIN_QUERY_LENGTH characters and unchanged for DEBOUNCE_MS
IssuedForSettledInput ==
  homeEv.kind = "searchIssued" =>
    /\ Len(homeEv.query) >= SEARCH_CONFIG.MIN_QUERY_LENGTH
    /\ homeEv.query = homeEv.field
    /\ homeEv.idle >= SEARCH_CONFIG.DEBOUNCE_MS

ShortInputCancels ==
  homeEv.kind = "shortInput" =>
    /\ home.timers = {} /\ home.searchResults = <<>>

\* C24: the suggestion search is debounced: at most one debounce timer is
\* pending, a search is issued only for an input of at least
\* MIN_QUERY_LENGTH characters that stayed the latest input for DEBOUNCE_MS,
\* and an input shorter than that cancels the pending timer, clears the
\* results and issues no search.
C24_Debounced == OneTimer /\ IssuedForSettledInput /\ ShortInputCancels

\* C28: after a location error, pressing Retry leads to the map view or the
\* error view again: loading eventually becomes false.
C28_RetryEndsLoading == (homeEv.kind = "retry") ~> ~home.loading

\* C29: the search results belong to the most recently issued query: the
\* response to an older query does not replace them, and a response that
\* arrives after the input was cleared or a result was selected does not
\* repopulate them.
C29_ResultsOfLatestQuery ==
  \/ home.searchResults = <<>>
  \/ \E query \in home.latest : home.searchResults = Places(query)

(***************************************************************************)
(* Claims about the login screen                                           *)
(***************************************************************************)
\* api.login threw, or the Lambda client returned an envelope with success
\* false
LoginFailed(out) ==
  out.thrown \/ (li.client = "lambda" /\ out.value.success = "false")

\* C26: the login screen navigates to /home only after a login that
\* succeeded: with an empty (trimmed) email or password no request is sent,
\* a failed login shows an alert and does not navigate, and loading is
\* false after every path, for each pairing of screen and client variant.
C26_HomeOnlyAfterLogin ==
  /\ liEv.kind = "called" =>
        Trim(liEv.email) # "" /\ Trim(liEv.password) # ""
  /\ liEv.kind = "rejected" => ~li.loading /\ li.route = "/login"
  /\ liEv.kind = "returned" =>
        /\ ~li.loading
        /\ LoginFailed(liEv.out) =>
              /\ ~liEv.navigated /\ li.route = "/login"
              /\ li.alert # NoAlert

====
